---- MODULE Spec2Model ----
(***************************************************************************)
(* Renoter: onion routing of Nostr events.                                 *)
(*                                                                         *)
(* The ingress wraps a signed event in one kind-29000 layer per hop and a  *)
(* final kind-29001 container padded to StandardizedSize; each mix node    *)
(* (Renoter) receives 29001 containers, runs ProcessEvent (age, replay     *)
(* cache, signature) and HandleEvent (decrypt, route, proof of work,       *)
(* decrypt, strip padding, id check, re-wrap or publish).                  *)
(*                                                                         *)
(* Cryptography is symbolic: a hash is the tuple of the hashed fields, a   *)
(* signature names its signer and the hash it covers, a ciphertext names   *)
(* its conversation key and carries its plaintext.  Serialized sizes are   *)
(* computed arithmetically from the JSON layout.                           *)
(***************************************************************************)
EXTENDS Integers, Sequences, FiniteSets, TLC

(***************************************************************************)
(* Program constants                                                       *)
(***************************************************************************)
WrapperEventKind ==
    29000

StandardizedWrapperKind ==
    29001

StandardizedSize ==
    32768

PoWDifficulty ==
    20

\* the difficulty the protocol document of the repository states for
\* kind-29000 events ("committed difficulty must be >= 16")
DocumentedDifficulty ==
    16

\* ProcessEvent: now.Add(-1 * time.Hour), in seconds
MaxAgeSeconds ==
    3600

\* NewRenoter: NewEventCache(5000, 2*time.Hour), the cutoff in seconds
CutoffSeconds ==
    7200

(***************************************************************************)
(* Bounds of the model                                                     *)
(***************************************************************************)
\* capacity of the replay cache (NewRenoter passes 5000; the model uses a
\* small capacity so that the capacity prune is exercised)
MaxCacheSize ==
    3

\* the clock takes the values ClockAt(0) .. ClockAt(MaxTick)
MaxTick ==
    4

\* padEventToExactSize is called on events at most this many characters
\* away from the largest event that fits the target size
MaxPadSlack ==
    3

\* number of concurrent callers of ProcessEvent
NumWorkers ==
    2

\* number of envelopes the adversary delivers to a subscription loop
MaxArrivals ==
    2

\* number of calls of ProcessEvent made directly on one Renoter
MaxCalls ==
    4

\* longest Renoter path (and number of mix nodes)
MaxPath ==
    3

\* largest capacity, and largest number of entries, of the caches
\* CheckAndMark is called on directly
MaxFill ==
    10

\* largest cache whose entries are stamped in every order, as concurrent
\* callers that read the clock before they take the lock can leave them
MaxScrambled ==
    3

(***************************************************************************)
(* Clock.  Instants are seconds; the clock visits instant 0 and the        *)
(* instants around the hour boundaries: 0, 3600, 3601, 7200, 7201, ...     *)
(***************************************************************************)
ClockAt(i) ==
    IF i = 0 THEN 0 ELSE ((i + 1) \div 2) * MaxAgeSeconds + ((i + 1) % 2)

Min(a, b) ==
    IF a < b THEN a ELSE b

Max(a, b) ==
    IF a > b THEN a ELSE b

(***************************************************************************)
(* EventCache.  A cache value is [store, keys]: store maps each id to the  *)
(* instant it was first seen, keys lists the ids in insertion order.       *)
(***************************************************************************)
NewEventCache ==
    [store |-> <<>>, keys |-> <<>>]

\* Size returns len(c.eventStore)
Size(c) ==
    Cardinality(DOMAIN c.store)

\* keys[1..n] leave the key list, their entries stay in the store
DeleteFirstKeysOnly(c, n) ==
    [store |-> c.store,
     keys  |-> SubSeq(c.keys, n + 1, Len(c.keys))]

\* the ids of keys[1..n] are deleted from the store
DeleteFirst(c, n) ==
    LET gone == {c.keys[i] : i \in 1..n}
    IN  [store |-> [k \in (DOMAIN c.store) \ gone |-> c.store[k]],
         keys  |-> SubSeq(c.keys, n + 1, Len(c.keys))]

\* as RemoveCount, without the floor of one entry
RemoveCountNoFloor(maxSize) ==
    maxSize \div 4

RemoveCount(maxSize) ==
    IF maxSize \div 4 = 0 THEN 1 ELSE maxSize \div 4

pruneLockedHalf(c, maxSize) ==
    DeleteFirst(c, Min(Len(c.keys), (maxSize + 1) \div 2))

pruneLocked(c, maxSize) ==
    DeleteFirst(c, RemoveCount(maxSize))

\* sort.Search(n, f): binary search on the 0-based indexes [i, j)
RECURSIVE SortSearch(_, _, _, _)
SortSearch(c, cutoffTime, i, j) ==
    IF i >= j THEN i
    ELSE LET h        == (i + j) \div 2
             eventID  == c.keys[h + 1]
             isNew    == IF eventID \in DOMAIN c.store
                         THEN c.store[eventID] >= cutoffTime
                         ELSE FALSE
         IN  IF ~isNew
             THEN SortSearch(c, cutoffTime, h + 1, j)
             ELSE SortSearch(c, cutoffTime, i, h)

\* as cleanupOldEventsLocked, an entry seen exactly cutoffDuration ago removed too
cleanupOldEventsLockedStrict(c, now, cutoffDuration) ==
    IF Len(c.keys) = 0 THEN c
    ELSE LET firstNewIndex == SortSearch(c, now - cutoffDuration + 1, 0, Len(c.keys))
         IN  IF firstNewIndex > 0 THEN DeleteFirst(c, firstNewIndex) ELSE c

cleanupOldEventsLocked(c, now, cutoffDuration) ==
    IF Len(c.keys) = 0 THEN c
    ELSE LET cutoffTime    == now - cutoffDuration
             firstNewIndex == SortSearch(c, cutoffTime, 0, Len(c.keys))
         IN  IF firstNewIndex > 0 THEN DeleteFirst(c, firstNewIndex) ELSE c

\* as CheckAndMark, the capacity prune run only above maxSize
CheckAndMarkPruneAbove(c, eventID, now, maxSize, cutoffDuration) ==
    LET pruned  == IF Len(c.keys) > maxSize THEN pruneLocked(c, maxSize) ELSE c
        cleaned == cleanupOldEventsLocked(pruned, now, cutoffDuration)
    IN  IF eventID \in DOMAIN cleaned.store
        THEN [seen |-> TRUE, cache |-> cleaned]
        ELSE [seen  |-> FALSE,
              cache |-> [store |-> [k \in (DOMAIN cleaned.store) \cup {eventID} |->
                                      IF k = eventID THEN now ELSE cleaned.store[k]],
                         keys  |-> Append(cleaned.keys, eventID)]]

\* CheckAndMark returns [seen, cache]: seen is the boolean the code returns,
\* cache the cache after the call
CheckAndMark(c, eventID, now, maxSize, cutoffDuration) ==
    LET pruned  == IF Len(c.keys) >= maxSize THEN pruneLocked(c, maxSize) ELSE c
        cleaned == cleanupOldEventsLocked(pruned, now, cutoffDuration)
    IN  IF eventID \in DOMAIN cleaned.store
        THEN [seen |-> TRUE, cache |-> cleaned]
        ELSE [seen  |-> FALSE,
              cache |-> [store |-> [k \in (DOMAIN cleaned.store) \cup {eventID} |->
                                      IF k = eventID THEN now ELSE cleaned.store[k]],
                         keys  |-> Append(cleaned.keys, eventID)]]

(***************************************************************************)
(* Keys.  Secret keys are numbers; the mix nodes own the secret keys       *)
(* 1..MaxPath.                                                             *)
(***************************************************************************)
GetPublicKey(sk) ==
    1000 + sk

\* ECDH: the key derived from (pub(a), b) equals the one from (pub(b), a)
GenerateConversationKey(pub, sk) ==
    {pub, GetPublicKey(sk)}

(***************************************************************************)
(* Events.  An event is [id, pubkey, created_at, kind, tags, content,      *)
(* sig]; a tag is [name, val, aux]: ["p", <key val>], ["nonce", <val>,     *)
(* <aux>], ["padding", <hex string of val characters>], and any other      *)
(* name for a two-element tag whose second element has val characters.     *)
(* A content is a text of len characters or a NIP-44 ciphertext.           *)
(***************************************************************************)
Tag(name, val, aux) ==
    [name |-> name, val |-> val, aux |-> aux]

TextContent(n) ==
    [k |-> "text", len |-> n]

NoHash ==
    [none |-> TRUE]

NoSig ==
    [by |-> 0, over |-> NoHash]

NoEvent ==
    [none |-> TRUE]

\* Event.GetID: the hash of the serialized [0, pubkey, created_at, kind,
\* tags, content].  The symbolic hash is injective: it keeps the hashed
\* fields, a ciphertext by its digest (see Encrypt).
GetID(e) ==
    [pubkey |-> e.pubkey, created_at |-> e.created_at, kind |-> e.kind,
     tags |-> e.tags,
     content |-> IF e.content.k = "enc"
                 THEN [k |-> "enc", ck |-> e.content.ck, pt |-> e.content.digest]
                 ELSE e.content]

CheckID(e) ==
    e.id = GetID(e)

\* Event.CheckSignature recomputes the hash of the event body and verifies
\* the signature over it under e.pubkey; it does not read e.id
CheckSignature(e) ==
    /\ e.sig.by # 0
    /\ e.sig.by = e.pubkey
    /\ e.sig.over = GetID(e)

\* Event.Sign sets pubkey, id and sig
Sign(e, sk) ==
    LET p == [e EXCEPT !.pubkey = GetPublicKey(sk)]
        h == GetID(p)
    IN  [p EXCEPT !.id = h, !.sig = [by |-> GetPublicKey(sk), over |-> h]]

RECURSIVE TagSum(_)
TagSum(tags) ==
    IF Len(tags) = 0 THEN 0
    ELSE tags[1].val + tags[1].aux + TagSum(Tail(tags))

\* nip13.Difficulty: the leading zero bits of an id.  The hash is symbolic,
\* so the bit count is a fixed pseudo-random function of the hashed fields.
ZeroBitsTable ==
    <<0, DocumentedDifficulty - 1, DocumentedDifficulty,
      PoWDifficulty - 1, PoWDifficulty, PoWDifficulty + 4>>

Difficulty(id) ==
    IF "none" \in DOMAIN id THEN 0
    ELSE ZeroBitsTable[((id.pubkey + id.created_at + id.kind + TagSum(id.tags))
                        % Len(ZeroBitsTable)) + 1]

Nip13CheckNone(id, minDifficulty) ==
    TRUE

Nip13Check(id, minDifficulty) ==
    Difficulty(id) >= minDifficulty

\* nip13.CommittedDifficulty: the third element of a nonce tag
CommittedDifficulties(tags) ==
    {tags[i].aux : i \in {j \in 1..Len(tags) : tags[j].name = "nonce"}}

\* commits to the difficulty without searching for a nonce
MineNonceUnsearched(e, nonce) ==
    [e EXCEPT !.tags = Append(e.tags, Tag("nonce", nonce, PoWDifficulty))]

\* Proof-of-work mining of a 29000 layer: the nonce counter is incremented
\* until the id has PoWDifficulty leading zero bits; the tag commits to the
\* difficulty
RECURSIVE MineNonce(_, _)
MineNonce(e, nonce) ==
    LET mined == [e EXCEPT !.tags = Append(e.tags, Tag("nonce", nonce, PoWDifficulty))]
    IN  IF Difficulty(GetID(mined)) >= PoWDifficulty THEN mined
        ELSE MineNonce(e, nonce + 1)

(***************************************************************************)
(* Serialization.  json.Marshal writes                                     *)
(* {"kind":K,"id":"..","pubkey":"..","created_at":T,"tags":[..],           *)
(*  "content":"..","sig":".."}                                             *)
(***************************************************************************)
\* json.Marshal of an event, and a string that is not the JSON of an event
Marshal(ev) ==
    [json |-> "event", ev |-> ev]

JunkText(n) ==
    [json |-> "junk", len |-> n]

\* a decoder that loses the signature
UnmarshalNoSig(pt) ==
    IF pt.json = "event"
    THEN [ok |-> TRUE, ev |-> [pt.ev EXCEPT !.sig = [by |-> 0, over |-> [none |-> TRUE]]]]
    ELSE [ok |-> FALSE]

Unmarshal(pt) ==
    IF pt.json = "event" THEN [ok |-> TRUE, ev |-> pt.ev] ELSE [ok |-> FALSE]

RECURSIVE DigitLen(_)
DigitLen(n) ==
    IF n < 10 THEN 1 ELSE 1 + DigitLen(n \div 10)

NameLen(name) ==
    CASE name = "p" -> 1
      [] name = "nonce" -> 5
      [] name = "padding" -> 7
      [] OTHER -> 1

TagLen(tag) ==
    CASE tag.name = "p" -> 2 + (NameLen(tag.name) + 2) + 1 + (64 + 2)
      [] tag.name = "nonce" -> 2 + (NameLen(tag.name) + 2) + 1 + (DigitLen(tag.val) + 2)
                                 + 1 + (DigitLen(tag.aux) + 2)
      [] OTHER -> 2 + (NameLen(tag.name) + 2) + 1 + (tag.val + 2)

RECURSIVE TagListLen(_)
TagListLen(tags) ==
    IF Len(tags) = 0 THEN 0
    ELSE TagLen(tags[1]) + (IF Len(tags) > 1 THEN 1 ELSE 0) + TagListLen(Tail(tags))

\* the length of the serialized event; a content knows its length
JSONLen(e) ==
    73 + DigitLen(e.kind)
       + (IF "none" \in DOMAIN e.id THEN 0 ELSE 64)
       + 64
       + DigitLen(e.created_at)
       + (2 + TagListLen(e.tags))
       + e.content.len
       + (IF e.sig.by = 0 THEN 0 ELSE 128)

PlainLen(pt) ==
    IF pt.json = "event" THEN JSONLen(pt.ev) ELSE pt.len

(***************************************************************************)
(* NIP-44 encryption (symbolic).  A ciphertext names its conversation key  *)
(* and carries its plaintext, its own length, and the digest under which   *)
(* it enters a hash: a plaintext that is an event by the event's hash, its *)
(* signer, and its id and signed hash where these differ from its hash.    *)
(***************************************************************************)
RECURSIVE NextPowerOfTwo(_, _)
NextPowerOfTwo(p, n) ==
    IF p > n THEN p ELSE NextPowerOfTwo(2 * p, n)

\* nip44 v2: the plaintext is padded to a chunk boundary, framed with a
\* version byte, a 32-byte nonce, a 2-byte length and a 32-byte MAC, then
\* base64-encoded
CipherLen(n) ==
    LET nextPower == NextPowerOfTwo(1, n - 1)
        chunk     == IF nextPower <= 256 THEN 32 ELSE nextPower \div 8
        padded    == IF n <= 32 THEN 32 ELSE chunk * (((n - 1) \div chunk) + 1)
        raw       == 1 + 32 + 2 + padded + 32
    IN  4 * ((raw + 2) \div 3)

SameHash ==
    [same |-> TRUE]

PlainDigest(pt) ==
    IF pt.json = "event"
    THEN LET h == GetID(pt.ev)
         IN  [json  |-> "event",
              hash  |-> h,
              id    |-> IF pt.ev.id = h THEN SameHash ELSE pt.ev.id,
              sigby |-> pt.ev.sig.by,
              over  |-> IF pt.ev.sig.over = h THEN SameHash ELSE pt.ev.sig.over]
    ELSE pt

\* nip44.Encrypt rejects plaintexts outside 1..65535 bytes
EncryptOK(plaintext) ==
    PlainLen(plaintext) >= 1 /\ PlainLen(plaintext) <= 65535

Encrypt(plaintext, conversationKey) ==
    [k |-> "enc", ck |-> conversationKey, pt |-> plaintext,
     len |-> CipherLen(PlainLen(plaintext)), digest |-> PlainDigest(plaintext)]

Decrypt(content, conversationKey) ==
    IF content.k = "enc" /\ content.ck = conversationKey
    THEN [ok |-> TRUE, pt |-> content.pt]
    ELSE [ok |-> FALSE]

(***************************************************************************)
(* Padder                                                                  *)
(***************************************************************************)
padEventToExactSizeUnchecked(event, targetSize) ==
    LET currentSize   == JSONLen(event)
        paddingNeeded == Max(0, targetSize - currentSize)
    IN  [ok |-> TRUE,
         ev |-> [event EXCEPT !.tags = Append(event.tags, Tag("padding", paddingNeeded, 0))]]

\* takes the overhead of the padding tag for that of a tag appended to a
\* non-empty tag list, whatever the tag list
padEventToExactSizeFixedOverhead(event, targetSize) ==
    LET currentSize   == JSONLen(event)
        tagBaseSize   == 1 + TagLen(Tag("padding", 0, 0))
        totalSize     == currentSize + tagBaseSize
        paddingNeeded == targetSize - totalSize
        paddedEvent   == [event EXCEPT !.tags = Append(event.tags, Tag("padding", paddingNeeded, 0))]
    IN  IF totalSize > targetSize THEN [ok |-> FALSE]
        ELSE IF JSONLen(paddedEvent) # targetSize THEN [ok |-> FALSE]
        ELSE [ok |-> TRUE, ev |-> paddedEvent]

\* recomputes the id of the padded event
padEventToExactSizeRehash(event, targetSize) ==
    LET currentSize   == JSONLen(event)
        withEmpty     == [event EXCEPT !.tags = Append(event.tags, Tag("padding", 0, 0))]
        paddingNeeded == targetSize - JSONLen(withEmpty)
        paddedEvent   == [event EXCEPT !.tags = Append(event.tags, Tag("padding", paddingNeeded, 0))]
    IN  IF paddingNeeded < 0 THEN [ok |-> FALSE]
        ELSE [ok |-> TRUE, ev |-> [paddedEvent EXCEPT !.id = GetID(paddedEvent)]]

padEventToExactSize(event, targetSize) ==
    LET currentSize   == JSONLen(event)
        withEmpty     == [event EXCEPT !.tags = Append(event.tags, Tag("padding", 0, 0))]
        tagBaseSize   == JSONLen(withEmpty) - currentSize
        totalSize     == currentSize + tagBaseSize
        paddingNeeded == targetSize - totalSize
        \* hex.EncodeToString of (paddingNeeded+1)/2 bytes, truncated
        hexLen        == 2 * ((paddingNeeded + 1) \div 2)
        paddingLen    == IF hexLen > paddingNeeded THEN paddingNeeded ELSE hexLen
        paddedEvent   == [event EXCEPT !.tags = Append(event.tags, Tag("padding", paddingLen, 0))]
    IN  IF totalSize > targetSize THEN [ok |-> FALSE]
        ELSE IF JSONLen(paddedEvent) # targetSize THEN [ok |-> FALSE]
        ELSE [ok |-> TRUE, ev |-> paddedEvent]

(***************************************************************************)
(* Wrap Engine.  renterPath is the sequence of hop public keys; the layer  *)
(* for renterPath[i] is signed by the fresh key sk0 + i, the 29001         *)
(* container by sk0 + Len(renterPath) + 1.                                 *)
(***************************************************************************)
\* one iteration of the wrapping loop: the 29000 layer around currentEvent
\* for the hop renoterPubkey, signed by the fresh key sk
WrapLayer(currentEvent, renoterPubkey, sk, now) ==
    LET eventJSON       == Marshal(currentEvent)
        pubkey          == GetPublicKey(sk)
        conversationKey == GenerateConversationKey(renoterPubkey, sk)
        ciphertext      == Encrypt(eventJSON, conversationKey)
        wrapperEvent    == [id |-> NoHash, pubkey |-> pubkey, created_at |-> now,
                            kind |-> WrapperEventKind,
                            tags |-> <<Tag("p", renoterPubkey, 0)>>,
                            content |-> ciphertext, sig |-> NoSig]
    IN  IF ~EncryptOK(eventJSON) THEN [ok |-> FALSE]
        ELSE [ok |-> TRUE, ev |-> Sign(MineNonce(wrapperEvent, 0), sk)]

\* wraps in path order: the layer for the first Renoter is the innermost
RECURSIVE WrapLayersForward(_, _, _, _, _)
WrapLayersForward(currentEvent, renterPath, i, sk0, now) ==
    IF i = 0 THEN [ok |-> TRUE, ev |-> currentEvent]
    ELSE LET layer == WrapLayer(currentEvent, renterPath[Len(renterPath) - i + 1],
                                sk0 + i, now)
         IN  IF ~layer.ok THEN [ok |-> FALSE]
             ELSE WrapLayersForward(layer.ev, renterPath, i - 1, sk0, now)

RECURSIVE WrapLayers(_, _, _, _, _)
WrapLayers(currentEvent, renterPath, i, sk0, now) ==
    IF i = 0 THEN [ok |-> TRUE, ev |-> currentEvent]
    ELSE LET layer == WrapLayer(currentEvent, renterPath[i], sk0 + i, now)
         IN  IF ~layer.ok THEN [ok |-> FALSE]
             ELSE WrapLayers(layer.ev, renterPath, i - 1, sk0, now)

\* as Standardized, the tags of the padded 29000 carried over to the container
StandardizedCopyTags(padded29000, recipientPubkey, sk29001, now) ==
    LET padded29000JSON      == Marshal(padded29000)
        conversationKey29001 == GenerateConversationKey(recipientPubkey, sk29001)
        ciphertext29001      == Encrypt(padded29000JSON, conversationKey29001)
        container            == [id |-> NoHash, pubkey |-> GetPublicKey(sk29001),
                                 created_at |-> now, kind |-> StandardizedWrapperKind,
                                 tags |-> <<Tag("p", recipientPubkey, 0)>>
                                          \o padded29000.tags,
                                 content |-> ciphertext29001, sig |-> NoSig]
    IN  Sign(container, sk29001)

\* the 29001 container built around a padded 29000 (WrapEvent and the
\* re-wrap step of HandleEvent build it the same way)
Standardized(padded29000, recipientPubkey, sk29001, now) ==
    LET padded29000JSON      == Marshal(padded29000)
        conversationKey29001 == GenerateConversationKey(recipientPubkey, sk29001)
        ciphertext29001      == Encrypt(padded29000JSON, conversationKey29001)
        container            == [id |-> NoHash, pubkey |-> GetPublicKey(sk29001),
                                 created_at |-> now, kind |-> StandardizedWrapperKind,
                                 tags |-> <<Tag("p", recipientPubkey, 0)>>,
                                 content |-> ciphertext29001, sig |-> NoSig]
    IN  Sign(container, sk29001)

\* wraps an empty path too: the event itself, padded, addressed to nobody
WrapEventAnyPath(originalEvent, renterPath, sk0, now) ==
    LET layers == WrapLayers(originalEvent, renterPath, Len(renterPath), sk0, now)
        padded == padEventToExactSize(layers.ev, StandardizedSize)
        first  == IF Len(renterPath) = 0 THEN 0 ELSE renterPath[1]
    IN  IF ~layers.ok THEN [ok |-> FALSE]
        ELSE IF ~padded.ok THEN [ok |-> FALSE]
        ELSE [ok |-> TRUE,
              ev |-> Standardized(padded.ev, first, sk0 + Len(renterPath) + 1, now)]

WrapEvent(originalEvent, renterPath, sk0, now) ==
    IF Len(renterPath) = 0 THEN [ok |-> FALSE]
    ELSE LET layers == WrapLayers(originalEvent, renterPath, Len(renterPath), sk0, now)
             padded == padEventToExactSize(layers.ev, StandardizedSize)
         IN  IF ~layers.ok THEN [ok |-> FALSE]
             ELSE IF ~padded.ok THEN [ok |-> FALSE]
             ELSE [ok |-> TRUE,
                   ev |-> Standardized(padded.ev, renterPath[1],
                                       sk0 + Len(renterPath) + 1, now)]

\* the error WrapEvent returns, "" when it returns an envelope; of each
\* message the part that tells it from the others is kept (nip44.Encrypt
\* refuses a plaintext outside 1..65535 bytes with "plaintext should be
\* between 1b and 64kB")
WrapEventErr(originalEvent, renterPath, sk0, now) ==
    LET layers    == WrapLayers(originalEvent, renterPath, Len(renterPath), sk0, now)
        withEmpty == [layers.ev EXCEPT !.tags = Append(@, Tag("padding", 0, 0))]
    IN  IF Len(renterPath) = 0 THEN "renoter path cannot be empty"
        ELSE IF ~layers.ok
             THEN "failed to encrypt for renoter: plaintext should be between 1b and 64kB"
        ELSE IF JSONLen(withEmpty) > StandardizedSize
             THEN "failed to pad outermost 29000 event: exceeds target size"
        ELSE IF ~padEventToExactSize(layers.ev, StandardizedSize).ok
             THEN "failed to pad outermost 29000 event: does not match target"
        ELSE ""

(***************************************************************************)
(* Path validation.  An entry of the configured path is a string: empty,   *)
(* not bech32 ("garbage"), the bech32 of fewer than 32 bytes ("short"), an *)
(* nsec, or the npub of a key.                                             *)
(***************************************************************************)
\* nip19.Decode: [ok, prefix, data]; data is the decoded key (64 hex
\* characters, 32 bytes)
Nip19Decode(s) ==
    IF s.form \in {"npub", "nsec"}
    THEN [ok |-> TRUE, prefix |-> s.form, data |-> s.key, bytes |-> 32]
    ELSE [ok |-> FALSE, prefix |-> "", data |-> 0, bytes |-> 0]

\* the error ValidatePath returns for one entry, "" when there is none
EntryError(npub) ==
    LET decoded == Nip19Decode(npub)
    IN  IF npub.form = "empty" THEN "npub is empty"
        ELSE IF ~decoded.ok THEN "failed to decode npub"
        ELSE IF decoded.prefix # "npub" THEN "not a valid npub"
        ELSE IF decoded.bytes # 32 THEN "invalid length"
        ELSE ""

PathError(err) ==
    [ok |-> FALSE, keys |-> <<>>, err |-> err]

\* returns at the first invalid entry; has no check for duplicates
ValidatePathNoDuplicateCheck(npubs) ==
    IF Len(npubs) = 0 THEN PathError("path cannot be empty")
    ELSE LET bad == {i \in 1..Len(npubs) : EntryError(npubs[i]) # ""}
         IN  IF bad # {}
             THEN PathError(EntryError(npubs[CHOOSE i \in bad : \A j \in bad : i <= j]))
             ELSE [ok |-> TRUE, keys |-> [i \in 1..Len(npubs) |-> Nip19Decode(npubs[i]).data],
                   err |-> ""]

\* ValidatePath returns [ok, keys, err]: the decoded keys, or nil and an error
ValidatePath(npubs) ==
    IF Len(npubs) = 0 THEN PathError("path cannot be empty")
    ELSE LET bad        == {i \in 1..Len(npubs) : EntryError(npubs[i]) # ""}
             publicKeys == [i \in 1..Len(npubs) |-> Nip19Decode(npubs[i]).data]
         IN  IF bad # {}
             THEN PathError(EntryError(npubs[CHOOSE i \in bad : \A j \in bad : i <= j]))
             ELSE IF \E i, j \in 1..Len(npubs) : i < j /\ publicKeys[i] = publicKeys[j]
             THEN PathError("duplicate Renoters in path")
             ELSE [ok |-> TRUE, keys |-> publicKeys, err |-> ""]

(***************************************************************************)
(* Peel Engine                                                             *)
(***************************************************************************)
ProcessEventNoAgeCheck(cache, event, now) ==
    LET r == CheckAndMark(cache, event.id, now, MaxCacheSize, CutoffSeconds)
    IN  IF r.seen THEN [err |-> "REPLAY", cache |-> r.cache]
        ELSE IF ~CheckSignature(event) THEN [err |-> "SIG_S", cache |-> r.cache]
        ELSE [err |-> "", cache |-> r.cache]

\* records the id before looking at the age of the event
ProcessEventMarkFirst(cache, event, now) ==
    LET r == CheckAndMark(cache, event.id, now, MaxCacheSize, CutoffSeconds)
    IN  IF event.created_at < now - MaxAgeSeconds
        THEN [err |-> "TOO_OLD", cache |-> r.cache]
        ELSE IF r.seen THEN [err |-> "REPLAY", cache |-> r.cache]
        ELSE IF ~CheckSignature(event) THEN [err |-> "SIG_S", cache |-> r.cache]
        ELSE [err |-> "", cache |-> r.cache]

\* verifies the signature before recording the id
ProcessEventVerifyFirst(cache, event, now) ==
    IF event.created_at < now - MaxAgeSeconds
    THEN [err |-> "TOO_OLD", cache |-> cache]
    ELSE IF ~CheckSignature(event) THEN [err |-> "SIG_S", cache |-> cache]
    ELSE LET r == CheckAndMark(cache, event.id, now, MaxCacheSize, CutoffSeconds)
         IN  IF r.seen THEN [err |-> "REPLAY", cache |-> r.cache]
             ELSE [err |-> "", cache |-> r.cache]

\* ProcessEvent returns [err, cache]: err is "" when the event may be
\* handled, else the reason of the rejection
ProcessEvent(cache, event, now) ==
    IF event.created_at < now - MaxAgeSeconds
    THEN [err |-> "TOO_OLD", cache |-> cache]
    ELSE LET r == CheckAndMark(cache, event.id, now, MaxCacheSize, CutoffSeconds)
         IN  IF r.seen THEN [err |-> "REPLAY", cache |-> r.cache]
             ELSE IF ~CheckSignature(event) THEN [err |-> "SIG_S", cache |-> r.cache]
             ELSE [err |-> "", cache |-> r.cache]

\* accepts any "p" tag
IsAddressedToAny(tags, pubkey) ==
    \E i \in 1..Len(tags) : tags[i].name = "p"

IsAddressedTo(tags, pubkey) ==
    \E i \in 1..Len(tags) : tags[i].name = "p" /\ tags[i].val = pubkey

RECURSIVE RemovePadding(_)
RemovePadding(tags) ==
    IF Len(tags) = 0 THEN <<>>
    ELSE IF tags[1].name # "padding"
         THEN <<tags[1]>> \o RemovePadding(Tail(tags))
         ELSE RemovePadding(Tail(tags))

\* the value of the last tag, whatever its name
LastTagValue(tags) ==
    IF Len(tags) = 0 THEN 0 ELSE tags[Len(tags)].val

\* the value of the last "p" tag, or 0
RECURSIVE LastPTag(_)
LastPTag(tags) ==
    IF Len(tags) = 0 THEN 0
    ELSE IF tags[Len(tags)].name = "p" THEN tags[Len(tags)].val
    ELSE LastPTag(SubSeq(tags, 1, Len(tags) - 1))

\* the value of the first "p" tag, or 0 (the empty string of the code)
RECURSIVE FirstPTag(_)
FirstPTag(tags) ==
    IF Len(tags) = 0 THEN 0
    ELSE IF tags[1].name = "p" THEN tags[1].val
    ELSE FirstPTag(Tail(tags))

\* HandleEvent of the Renoter with private key r, up to its call of
\* PublishMany: [stage, err, out].  stage names the step that ended the
\* handling, err tells whether an error is returned there, out is the event
\* handed to PublishMany (NoEvent when the handling ends before).
HandleEvent(r, event, now, sk29001) ==
    LET PublicKey       == GetPublicKey(r)
        plaintext29001  == Decrypt(event.content,
                                   GenerateConversationKey(event.pubkey, r))
        parsed29000     == Unmarshal(plaintext29001.pt)
        inner29000      == parsed29000.ev
        plaintext29000  == Decrypt(inner29000.content,
                                   GenerateConversationKey(inner29000.pubkey, r))
        parsedInner     == Unmarshal(plaintext29000.pt)
        innerEvent      == [parsedInner.ev EXCEPT
                               !.tags = RemovePadding(parsedInner.ev.tags)]
        nextRenoterPubkey == FirstPTag(innerEvent.tags)
        padded29000     == padEventToExactSize(innerEvent, StandardizedSize)
        new29001        == Standardized(padded29000.ev, nextRenoterPubkey, sk29001, now)
        Drop(stage, isErr) == [stage |-> stage, err |-> isErr, out |-> NoEvent]
    IN  IF ~CheckSignature(event) THEN Drop("SIG_S", TRUE)
        ELSE IF ~plaintext29001.ok THEN Drop("DECRYPT_S", TRUE)
        ELSE IF ~parsed29000.ok THEN Drop("PARSE_W", TRUE)
        ELSE IF ~IsAddressedTo(inner29000.tags, PublicKey) THEN Drop("ROUTE_W", FALSE)
        ELSE IF ~Nip13Check(inner29000.id, PoWDifficulty) THEN Drop("POW_W", TRUE)
        ELSE IF ~plaintext29000.ok THEN Drop("DECRYPT_W", TRUE)
        ELSE IF ~parsedInner.ok THEN Drop("PARSE_INNER", TRUE)
        ELSE IF innerEvent.id # GetID(innerEvent) THEN Drop("ID_INNER", TRUE)
        ELSE IF innerEvent.sig.by # 0 /\ ~CheckSignature(innerEvent)
             THEN Drop("SIG_INNER", TRUE)
        ELSE IF innerEvent.kind = WrapperEventKind
             THEN IF ~Nip13Check(innerEvent.id, PoWDifficulty) THEN Drop("POW_NEXT", TRUE)
                  ELSE IF nextRenoterPubkey = 0 THEN Drop("NO_NEXT_HOP", TRUE)
                  ELSE IF ~padded29000.ok THEN Drop("PAD", TRUE)
                  ELSE [stage |-> "EMIT_S_NEXT", err |-> FALSE, out |-> new29001]
        ELSE [stage |-> "EMIT_FINAL", err |-> FALSE, out |-> innerEvent]

(***************************************************************************)
(* State                                                                   *)
(***************************************************************************)
VARIABLES
    tick,             \* index of the current instant: now = ClockAt(tick)
    eventCache,       \* eventCache[n]: the EventCache of Renoter n
    processedEvents,  \* processedEvents[n]: the map of the subscription loop of n
    processingEvents, \* processingEvents[n]: the map of the subscription loop of n
    relayStore,       \* the events accepted by at least one relay
    nextKey,          \* source of fresh private keys
    arrivals,         \* number of envelopes the subscription loops received
    last,             \* the last iteration of a subscription loop
    seenIds,          \* <<n, id>>: an envelope with this id arrived at n
    handledIds,       \* <<n, id>>: HandleEvent was invoked at n for this id
    handledTwice,     \* <<n, id>>: HandleEvent was invoked more than once
    okIds,            \* <<n, id>>: a copy passing every check but replay arrived
    pubCount,         \* number of successful publishes by the Renoters
    pubFailed,        \* a PublishMany succeeded on no relay
    visited,          \* the Renoters that published, in order
    plain,            \* the event submitted to the ingress
    path,             \* the Renoter path of the ingress
    wrapped,          \* the result of WrapEvent at the ingress
    wpc,              \* wpc[w]: position of worker w in ProcessEvent
    wnow,             \* wnow[w]: the instant worker w read
    wres,             \* wres[w]: the result of ProcessEvent of worker w
    cMarkedAt,        \* instant at which the watched id was last recorded, or -1
    cOthers,          \* other ids recorded since the watched id was recorded
    cLast,            \* the last direct CheckAndMark call and its result
    callArgs,         \* the arguments of a direct call of a function
    callResult,       \* what that call returned
    events,           \* the envelopes waiting in the subscription channel
    eventsClosed,     \* the subscription channel is closed
    ctxDone,          \* the process-wide context is cancelled
    lpc,              \* position of the goroutine of the subscription loop
    cur,              \* the envelope that goroutine is working on
    curOut,           \* the event it handed to PublishMany
    exited,           \* the process has ended
    loopErrs          \* iterations in which ProcessEvent or HandleEvent failed

nodeVars ==
    <<eventCache, processedEvents, processingEvents, relayStore, nextKey,
      arrivals, last, seenIds, handledIds, handledTwice, okIds,
      pubCount, pubFailed, visited>>

ingressVars ==
    <<plain, path, wrapped>>

workerVars ==
    <<wpc, wnow, wres>>

cacheCallVars ==
    <<cMarkedAt, cOthers, cLast>>

directVars ==
    <<callArgs, callResult>>

loopVars ==
    <<events, eventsClosed, ctxDone, lpc, cur, curOut, exited, loopErrs>>

vars ==
    <<tick, nodeVars, ingressVars, workerVars, cacheCallVars, directVars, loopVars>>

Now ==
    ClockAt(tick)

Nodes ==
    1..MaxPath

Relays ==
    {"relayA", "relayB"}

Workers ==
    1..NumWorkers

\* private keys: the Renoters own 1..MaxPath, then the author of the
\* plaintext events, an outsider, and the keys generated at run time
AuthorKey ==
    MaxPath + 1

OutsiderKey ==
    MaxPath + 2

FirstFreshKey ==
    MaxPath + 3

NoIteration ==
    [node |-> 0, ev |-> NoEvent, now |-> 0, stage |-> "", handled |-> FALSE,
     out |-> NoEvent, published |-> FALSE, dup |-> FALSE, prior |-> <<>>,
     err |-> FALSE]

NoCall ==
    [id |-> 0, now |-> 0, seen |-> FALSE, prevMark |-> -1, others |-> 0]

NodeInit ==
    /\ eventCache = [n \in Nodes |-> NewEventCache]
    /\ processedEvents = [n \in Nodes |-> {}]
    /\ processingEvents = [n \in Nodes |-> {}]
    /\ relayStore = {}
    /\ nextKey = FirstFreshKey
    /\ arrivals = 0
    /\ last = NoIteration
    /\ seenIds = {}
    /\ handledIds = {}
    /\ handledTwice = {}
    /\ okIds = {}
    /\ pubCount = 0
    /\ pubFailed = FALSE
    /\ visited = <<>>

IngressIdle ==
    /\ plain = NoEvent
    /\ path = <<>>
    /\ wrapped = [ok |-> FALSE, done |-> FALSE, ev |-> NoEvent]

WorkersIdle ==
    /\ wpc = [w \in Workers |-> "idle"]
    /\ wnow = [w \in Workers |-> 0]
    /\ wres = [w \in Workers |-> "none"]

NoArgs ==
    [none |-> TRUE]

NoResult ==
    [none |-> TRUE]

DirectIdle ==
    /\ callArgs = NoArgs
    /\ callResult = NoResult

\* SubscribeToWrappedEvents has started its goroutine, which waits in the
\* select; nothing has arrived
LoopIdle ==
    /\ events = <<>>
    /\ eventsClosed = FALSE
    /\ ctxDone = FALSE
    /\ lpc = "select"
    /\ cur = NoEvent
    /\ curOut = NoEvent
    /\ exited = FALSE
    /\ loopErrs = 0

CacheCallIdle ==
    /\ cMarkedAt = -1
    /\ cOthers = 0
    /\ cLast = NoCall

Tick ==
    /\ tick < MaxTick
    /\ tick' = tick + 1
    /\ UNCHANGED <<nodeVars, ingressVars, workerVars, cacheCallVars, directVars, loopVars>>

(***************************************************************************)
(* The subscription loop of SubscribeToWrappedEvents: one iteration for an *)
(* envelope ev received by Renoter n; okRelays are the relays on which a   *)
(* publish of this iteration succeeds.                                     *)
(***************************************************************************)
\* the loop skips an id found in processedEvents or processingEvents
AlreadyNever(n, id) ==
    FALSE

Already(n, id) ==
    id \in processedEvents[n] \/ id \in processingEvents[n]

\* the outcomes of PublishMany an iteration can meet: the relays on which
\* the publish succeeds (an iteration that skips its envelope publishes
\* nothing, whatever the relays would do)
PublishOutcomes(n, ev) ==
    IF Already(n, ev.id) THEN {Relays} ELSE SUBSET Relays

\* every check of the pipeline other than the replay check
PassesAllButReplay(n, ev, now) ==
    /\ ~(ev.created_at < now - MaxAgeSeconds)
    /\ CheckID(ev)
    /\ CheckSignature(ev)
    /\ HandleEvent(n, ev, now, nextKey).out # NoEvent

LoopIteration(n, ev, okRelays) ==
    LET id      == ev.id
        skipped == Already(n, id)
        pr      == ProcessEvent(eventCache[n], ev, Now)
        handled == ~skipped /\ pr.err = ""
        h       == HandleEvent(n, ev, Now, nextKey)
        publish == handled /\ h.out # NoEvent
        success == publish /\ okRelays # {}
        stage   == IF skipped THEN "SKIP"
                   ELSE IF pr.err # "" THEN pr.err
                   ELSE IF publish /\ ~success THEN "PUBLISH_FAILED"
                   ELSE h.stage
    IN  /\ eventCache' = IF skipped THEN eventCache
                         ELSE [eventCache EXCEPT ![n] = pr.cache]
        /\ processingEvents' = IF ~skipped /\ ~handled
                               THEN [processingEvents EXCEPT ![n] = @ \cup {id}]
                               ELSE processingEvents
        /\ processedEvents' = IF handled
                              THEN [processedEvents EXCEPT ![n] = @ \cup {id}]
                              ELSE processedEvents
        /\ relayStore' = IF success THEN relayStore \cup {h.out} ELSE relayStore
        /\ nextKey' = IF handled /\ h.stage = "EMIT_S_NEXT" THEN nextKey + 1 ELSE nextKey
        /\ arrivals' = arrivals + 1
        /\ last' = [node |-> n, ev |-> ev, now |-> Now, stage |-> stage,
                    handled |-> handled,
                    out |-> IF publish THEN h.out ELSE NoEvent,
                    published |-> success,
                    dup |-> <<n, id>> \in seenIds, prior |-> visited,
                    err |-> handled /\ (h.err \/ (publish /\ ~success))]
        /\ seenIds' = seenIds \cup {<<n, id>>}
        /\ handledIds' = IF handled THEN handledIds \cup {<<n, id>>} ELSE handledIds
        /\ handledTwice' = IF handled /\ <<n, id>> \in handledIds
                           THEN handledTwice \cup {<<n, id>>} ELSE handledTwice
        /\ okIds' = IF PassesAllButReplay(n, ev, Now)
                    THEN okIds \cup {<<n, id>>} ELSE okIds
        /\ pubCount' = IF success THEN pubCount + 1 ELSE pubCount
        /\ pubFailed' = (pubFailed \/ (publish /\ ~success))
        /\ visited' = IF success THEN Append(visited, n) ELSE visited

(***************************************************************************)
(* Envelopes that can be delivered to Renoter 1: well-formed ones built by *)
(* WrapEvent, and one malformed envelope for each check of the pipeline.   *)
(***************************************************************************)
NewEvent(created_at, kind, tags, content) ==
    [id |-> NoHash, pubkey |-> 0, created_at |-> created_at, kind |-> kind,
     tags |-> tags, content |-> content, sig |-> NoSig]

Pub(n) ==
    GetPublicKey(n)

\* the keys generated for the j-th envelope of the catalogue
CatKey(j) ==
    FirstFreshKey + 10 * j

P0 ==
    Sign(NewEvent(0, 1, <<>>, TextContent(5)), AuthorKey)

\* a nonce for which the id misses the required difficulty
RECURSIVE WeakNonce(_, _)
WeakNonce(e, nonce) ==
    LET tagged == [e EXCEPT !.tags = Append(e.tags, Tag("nonce", nonce, PoWDifficulty))]
    IN  IF Difficulty(GetID(tagged)) < PoWDifficulty THEN tagged
        ELSE WeakNonce(e, nonce + 1)

\* a signed 29000 built by hand: tags and content as given, proof of work
\* mined when strong, missed otherwise
Layer(tags, content, sk, strong) ==
    LET e == [NewEvent(0, WrapperEventKind, tags, content) EXCEPT !.pubkey = GetPublicKey(sk)]
    IN  Sign(IF strong THEN MineNonce(e, 0) ELSE WeakNonce(e, 0), sk)

\* the ciphertext of an event for the Renoter with public key pub
Sealed(ev, pub, sk) ==
    Encrypt(Marshal(ev), GenerateConversationKey(pub, sk))

\* a 29001 for Renoter 1 around the hand-built 29000 w
Envelope(w, j) ==
    Standardized(w, Pub(1), CatKey(j) + 1, 0)

GoodFinal ==
    WrapEvent(P0, <<Pub(1)>>, CatKey(1), 0).ev

GoodNext ==
    WrapEvent(P0, <<Pub(1), Pub(2)>>, CatKey(2), 0).ev

\* created one hour and one second after instant 0
FutureS ==
    WrapEvent(P0, <<Pub(1)>>, CatKey(3), MaxAgeSeconds + 1).ev

\* a copy of GoodFinal whose signature does not verify
BadSig ==
    [GoodFinal EXCEPT !.sig = [by |-> Pub(OutsiderKey), over |-> GoodFinal.sig.over]]

\* GoodFinal with its id field replaced: the signature still verifies
WrongId ==
    [GoodFinal EXCEPT !.id = P0.id]

\* signed by an outsider, not decryptable, stating the id of GoodNext
Poison ==
    [Sign(NewEvent(0, StandardizedWrapperKind, <<Tag("p", Pub(1), 0)>>, TextContent(5)),
          OutsiderKey) EXCEPT !.id = GoodNext.id]

NotForUs ==
    WrapEvent(P0, <<Pub(2)>>, CatKey(4), 0).ev

JunkInside ==
    Sign(NewEvent(0, StandardizedWrapperKind, <<Tag("p", Pub(1), 0)>>,
                  Encrypt(JunkText(10), GenerateConversationKey(Pub(1), CatKey(5)))),
         CatKey(5))

Misrouted ==
    Envelope(Layer(<<Tag("p", Pub(2), 0)>>, Sealed(P0, Pub(2), CatKey(6)), CatKey(6), TRUE), 6)

LowPow ==
    Envelope(Layer(<<Tag("p", Pub(1), 0)>>, Sealed(P0, Pub(1), CatKey(7)), CatKey(7), FALSE), 7)

BadWContent ==
    Envelope(Layer(<<Tag("p", Pub(1), 0)>>, Sealed(P0, Pub(2), CatKey(8)), CatKey(8), TRUE), 8)

JunkInner ==
    Envelope(Layer(<<Tag("p", Pub(1), 0)>>,
                   Encrypt(JunkText(10), GenerateConversationKey(Pub(1), CatKey(9))),
                   CatKey(9), TRUE), 9)

InnerIdMismatch ==
    Envelope(Layer(<<Tag("p", Pub(1), 0)>>,
                   Sealed([P0 EXCEPT !.id = GoodFinal.id], Pub(1), CatKey(10)),
                   CatKey(10), TRUE), 10)

InnerBadSig ==
    Envelope(Layer(<<Tag("p", Pub(1), 0)>>,
                   Sealed([P0 EXCEPT !.sig = [by |-> Pub(OutsiderKey), over |-> P0.id]],
                          Pub(1), CatKey(11)),
                   CatKey(11), TRUE), 11)

NextLowPow ==
    Envelope(Layer(<<Tag("p", Pub(1), 0)>>,
                   Sealed(Layer(<<Tag("p", Pub(2), 0)>>, Sealed(P0, Pub(2), CatKey(12)),
                                CatKey(12), FALSE),
                          Pub(1), CatKey(12) + 2),
                   CatKey(12) + 2, TRUE), 12)

NextNoP ==
    Envelope(Layer(<<Tag("p", Pub(1), 0)>>,
                   Sealed(Layer(<<>>, Sealed(P0, Pub(2), CatKey(13)), CatKey(13), TRUE),
                          Pub(1), CatKey(13) + 2),
                   CatKey(13) + 2, TRUE), 13)

\* the next layer carries two "p" tags, after a tag of another name
NextTwoP ==
    Envelope(Layer(<<Tag("p", Pub(1), 0)>>,
                   Sealed(Layer(<<Tag("e", 64, 0), Tag("p", Pub(2), 0), Tag("p", Pub(3), 0)>>,
                                Sealed(P0, Pub(2), CatKey(26)), CatKey(26), TRUE),
                          Pub(1), CatKey(26) + 2),
                   CatKey(26) + 2, TRUE), 26)

\* the next layer carries a plaintext too large to be padded to StandardizedSize
NextTooBig ==
    Envelope(Layer(<<Tag("p", Pub(1), 0)>>,
                   Sealed(Layer(<<Tag("p", Pub(2), 0)>>,
                                Sealed(Sign(NewEvent(0, 1, <<>>, TextContent(StandardizedSize)),
                                            AuthorKey),
                                       Pub(2), CatKey(14)),
                                CatKey(14), TRUE),
                          Pub(1), CatKey(14) + 2),
                   CatKey(14) + 2, TRUE), 14)

\* a nonce, committing to the given difficulty, for which the id has exactly
\* the given number of leading zero bits
RECURSIVE NonceWithBits(_, _, _, _)
NonceWithBits(e, nonce, committed, bits) ==
    LET tagged == [e EXCEPT !.tags = Append(e.tags, Tag("nonce", nonce, committed))]
    IN  IF Difficulty(GetID(tagged)) = bits THEN tagged
        ELSE NonceWithBits(e, nonce + 1, committed, bits)

\* a timestamp for which the id has exactly the given number of leading zero
\* bits, for an event without a nonce tag
RECURSIVE StampWithBits(_, _, _)
StampWithBits(e, t, bits) ==
    LET stamped == [e EXCEPT !.created_at = t]
    IN  IF Difficulty(GetID(stamped)) = bits THEN stamped
        ELSE StampWithBits(e, t + 1, bits)

\* a signed 29000 for Renoter 1 around P0, from the key sk
Unmined(sk) ==
    [NewEvent(0, WrapperEventKind, <<Tag("p", Pub(1), 0)>>, Sealed(P0, Pub(1), sk))
        EXCEPT !.pubkey = GetPublicKey(sk)]

\* the nonce tag commits to a difficulty of 1; the id has
\* PoWDifficulty + 4 leading zero bits
LowCommit ==
    Envelope(Sign(NonceWithBits(Unmined(CatKey(15)), 0, 1, PoWDifficulty + 4),
                  CatKey(15)), 15)

\* no nonce tag; the id has PoWDifficulty leading zero bits
NoNonce ==
    Envelope(Sign(StampWithBits(Unmined(CatKey(16)), 0, PoWDifficulty), CatKey(16)), 16)

\* a mined and signed 29000 whose nonce is changed afterwards: id and
\* signature are left as they were
TamperedNonce ==
    LET w == Layer(<<Tag("p", Pub(1), 0)>>, Sealed(P0, Pub(1), CatKey(17)), CatKey(17), TRUE)
        n == Len(w.tags)
    IN  Envelope([w EXCEPT !.tags[n].val = @ + 1], 17)

\* the id has exactly DocumentedDifficulty leading zero bits
Bits16 ==
    Envelope(Sign(NonceWithBits(Unmined(CatKey(18)), 0, DocumentedDifficulty,
                                DocumentedDifficulty), CatKey(18)), 18)

\* the id has one leading zero bit less
Bits15 ==
    Envelope(Sign(NonceWithBits(Unmined(CatKey(19)), 0, DocumentedDifficulty,
                                DocumentedDifficulty - 1), CatKey(19)), 19)

\* the innermost event carries no signature
InnerUnsigned ==
    Envelope(Layer(<<Tag("p", Pub(1), 0)>>,
                   Sealed([P0 EXCEPT !.sig = NoSig], Pub(1), CatKey(20)),
                   CatKey(20), TRUE), 20)

\* inner 29000s that do not name Renoter 1: no tag at all and a missed
\* proof of work; a "p" tag for Renoter 1 under another tag name, an
\* undecryptable content, neither id nor signature
MisroutedBare ==
    Envelope(Layer(<<>>, Sealed(P0, Pub(1), CatKey(21)), CatKey(21), FALSE), 21)

MisroutedUnsigned ==
    Envelope(NewEvent(0, WrapperEventKind, <<Tag("e", Pub(1), 0)>>, TextContent(5)), 22)

\* the well-formed envelopes, copies of them that share their id, and an
\* envelope the pipeline drops
\* the padded 29000 of GoodFinal inside a newly built 29001
Recontained ==
    Envelope(Unmarshal(GoodFinal.content.pt).ev, 3)

Catalogue ==
    {GoodFinal, GoodNext, FutureS, BadSig, WrongId, Poison, LowPow, Recontained}

\* one envelope for each outcome of the pipeline
PeelCatalogue ==
    {GoodFinal, GoodNext, FutureS, BadSig, WrongId, Poison, NotForUs, JunkInside,
     Misrouted, LowPow, BadWContent, JunkInner, InnerIdMismatch, InnerBadSig,
     NextLowPow, NextNoP, NextTwoP, NextTooBig, LowCommit, NoNonce, TamperedNonce,
     Bits16, Bits15, InnerUnsigned, MisroutedBare, MisroutedUnsigned}

(***************************************************************************)
(* Spec: Renoter 1 receives envelopes of the catalogue, duplicates         *)
(* included, in any order and at any instants.                             *)
(***************************************************************************)
Init ==
    /\ tick = 0
    /\ NodeInit
    /\ IngressIdle
    /\ WorkersIdle
    /\ CacheCallIdle
    /\ DirectIdle
    /\ LoopIdle

Receive(ev, okRelays) ==
    /\ arrivals < MaxArrivals
    /\ LoopIteration(1, ev, okRelays)
    /\ UNCHANGED <<tick, ingressVars, workerVars, cacheCallVars, directVars, loopVars>>

Next ==
    \/ Tick
    \/ \E ev \in Catalogue :
           \E okRelays \in PublishOutcomes(1, ev) : Receive(ev, okRelays)

Spec ==
    Init /\ [][Next]_vars

\* C1: whatever envelopes arrive at the subscription loop, duplicates
\* included, HandleEvent is invoked at most once per envelope id: an id that
\* arrived before is never handled again, so a second delivery of an
\* envelope adds no emission.
C1_HandleEventAtMostOnce ==
    /\ handledTwice = {}
    /\ last.dup => (~last.handled /\ last.out = NoEvent)

\* GoodNext was delivered twice: handled once, one emission, the second
\* delivery skipped
C1_Witness ==
    /\ last.dup
    /\ last.ev = GoodNext
    /\ <<1, GoodNext.id>> \in handledIds
    /\ pubCount = 1
    /\ ~last.handled

\* C4 (as stated): when every publish succeeds on some relay, the number of
\* forwarded envelopes equals the number of distinct ids of which at least
\* one arriving copy passes every check other than the replay check.
C4_ForwardedOncePerGoodId ==
    ~pubFailed => pubCount = Cardinality(okIds)

\* C5: an envelope created more than MaxAgeSeconds before the instant at
\* which it is examined is not handled (not decrypted, not re-wrapped, not
\* published), and ProcessEvent rejects it as too old.
C5_TooOldRejected ==
    (last.node # 0 /\ last.ev.created_at + MaxAgeSeconds < last.now)
    => /\ ~last.handled
       /\ last.out = NoEvent
       /\ ~last.published
       /\ last.stage \in {"TOO_OLD", "SKIP"}
       /\ ~last.dup => last.stage = "TOO_OLD"

\* GoodFinal, created at 0, is examined for the first time one second after
\* the hour and rejected
C5_Witness ==
    /\ last.ev = GoodFinal
    /\ ~last.dup
    /\ last.now = MaxAgeSeconds + 1
    /\ last.stage = "TOO_OLD"

\* C6 (as stated): an envelope whose stated id differs from the id
\* recomputed from its fields is never forwarded, even when its signature
\* verifies.
C6_IdMismatchNeverForwarded ==
    (last.node # 0 /\ ~CheckID(last.ev)) => ~last.published

(***************************************************************************)
(* SpecPeel: one envelope of the peel catalogue is delivered to Renoter 1, *)
(* at any instant, and delivered again at any later instants.              *)
(***************************************************************************)
ReceiveOne(ev, okRelays) ==
    /\ arrivals = 0 \/ ev = last.ev
    /\ Receive(ev, okRelays)

PeelNext ==
    \/ Tick
    \/ \E ev \in PeelCatalogue :
           \E okRelays \in PublishOutcomes(1, ev) : ReceiveOne(ev, okRelays)

SpecPeel ==
    Init /\ [][PeelNext]_vars

\* C7: a publish happens only for an envelope that passed the age check,
\* the replay check (its id had not arrived before), the signature check,
\* the decryption of the 29001, the parse of the 29000, the routing check,
\* the proof-of-work check, the decryption of the 29000, the parse of the
\* inner event and the inner id check; a handled envelope is never handled
\* again.
C7_PublishOnlyAfterAllChecks ==
    (last.node # 0 /\ last.out # NoEvent)
    => LET ev     == last.ev
           d1     == Decrypt(ev.content, {ev.pubkey, GetPublicKey(last.node)})
           p1     == Unmarshal(d1.pt)
           w      == p1.ev
           d2     == Decrypt(w.content, {w.pubkey, GetPublicKey(last.node)})
           p2     == Unmarshal(d2.pt)
           inner  == p2.ev
           real   == SelectSeq(inner.tags, LAMBDA t : t.name # "padding")
       IN  /\ ev.created_at >= last.now - MaxAgeSeconds
           /\ ~last.dup
           /\ ev.sig.by = ev.pubkey /\ ev.sig.over = GetID(ev)
           /\ d1.ok
           /\ p1.ok
           /\ \E i \in 1..Len(w.tags) :
                  w.tags[i].name = "p" /\ w.tags[i].val = GetPublicKey(last.node)
           /\ Difficulty(w.id) >= PoWDifficulty
           /\ d2.ok
           /\ p2.ok
           /\ inner.id = GetID([inner EXCEPT !.tags = real])
           /\ last.stage \in {"EMIT_S_NEXT", "EMIT_FINAL", "PUBLISH_FAILED"}
           /\ <<last.node, ev.id>> \notin handledTwice

\* GoodNext passed every check and its re-wrapped envelope was published
C7_Witness ==
    /\ last.ev = GoodNext
    /\ last.stage = "EMIT_S_NEXT"
    /\ last.published
    /\ last.out.kind = StandardizedWrapperKind

\* the last iteration ran HandleEvent up to its proof-of-work check of the
\* inner 29000: the envelope decrypted, parsed and was addressed to the node
ReachedPoWCheck ==
    /\ last.handled
    /\ last.stage \notin {"SIG_S", "DECRYPT_S", "PARSE_W", "ROUTE_W"}

\* the inner 29000 of the envelope of the last iteration
LastInnerW ==
    Unmarshal(last.ev.content.pt).ev

\* C12: an inner 29000 that reaches the proof-of-work check without a nonce
\* tag, or with a nonce tag committing to less than the documented
\* difficulty, is dropped there and nothing is handed to the relays.
C12_CommittedDifficultyChecked ==
    (/\ ReachedPoWCheck
     /\ \/ CommittedDifficulties(LastInnerW.tags) = {}
        \/ \E c \in CommittedDifficulties(LastInnerW.tags) : c < DocumentedDifficulty)
    => (last.stage = "POW_W" /\ last.out = NoEvent)

\* the nonce of w was changed after its id was computed: the id is the hash
\* of w with another nonce
NonceAltered(w) ==
    LET n == Len(w.tags)
    IN  /\ n > 0
        /\ w.tags[n].name = "nonce"
        /\ w.id # GetID(w)
        /\ \E v \in 0..Len(ZeroBitsTable) : w.id = GetID([w EXCEPT !.tags[n].val = v])

\* C13: an inner 29000 whose nonce tag was altered after mining, id and
\* signature left as they were, is dropped at the proof-of-work check and
\* nothing is handed to the relays.
C13_AlteredNonceDropped ==
    (ReachedPoWCheck /\ NonceAltered(LastInnerW))
    => (last.stage = "POW_W" /\ last.out = NoEvent)

\* C14: the proof-of-work check passes an inner 29000 exactly when its id
\* has at least 16 leading zero bits: 16 bits pass, 15 bits fail.
C14_DifficultySixteen ==
    ReachedPoWCheck =>
        (last.stage = "POW_W" <=> Difficulty(LastInnerW.id) < DocumentedDifficulty)

\* C15: when the envelope of an iteration verifies, decrypts and parses to
\* an inner 29000 that has no tag ["p", own public key], HandleEvent hands
\* nothing to the relays and returns no error, whatever else the 29000 holds.
C15_MisroutedSilentlyDropped ==
    LET own == GetPublicKey(last.node)
        d   == Decrypt(last.ev.content, GenerateConversationKey(last.ev.pubkey, last.node))
        p   == Unmarshal(d.pt)
    IN  (/\ last.handled
         /\ d.ok
         /\ p.ok
         /\ \A i \in 1..Len(p.ev.tags) :
                ~(p.ev.tags[i].name = "p" /\ p.ev.tags[i].val = own))
        => (/\ last.stage = "ROUTE_W"
            /\ last.out = NoEvent
            /\ ~last.published
            /\ ~last.err)

\* a misrouted 29000 with a valid proof of work, id and signature was
\* dropped without an error
C15_Witness ==
    /\ last.handled
    /\ last.stage = "ROUTE_W"
    /\ ~last.err
    /\ CheckSignature(LastInnerW)
    /\ CheckID(LastInnerW)
    /\ Nip13Check(LastInnerW.id, PoWDifficulty)
    /\ Len(LastInnerW.tags) > 0

\* C16: every event that HandleEvent publishes in its emit-final branch
\* (an inner event of a kind other than 29000) states its recomputed id and
\* carries a signature that verifies under its author key.
C16_FinalEventVerified ==
    (last.published /\ last.stage = "EMIT_FINAL")
    => (/\ last.out.kind # WrapperEventKind
        /\ CheckID(last.out)
        /\ CheckSignature(last.out))

(***************************************************************************)
(* SpecConc: NumWorkers goroutines call ProcessEvent on the Renoter 1 with *)
(* the same envelope.  A call reads the clock, then (the clock may move    *)
(* on meanwhile) runs the age check and CheckAndMark, which holds the      *)
(* mutex of the cache from its first to its last statement.  Before the    *)
(* calls start the cache has recorded other envelopes.                     *)
(***************************************************************************)
\* the envelope every worker processes: created at MaxAgeSeconds + 1
Contended ==
    FutureS

Filler(k, now) ==
    Sign(NewEvent(now, StandardizedWrapperKind, <<Tag("p", Pub(1), 0)>>, TextContent(k)),
         OutsiderKey)

ConcInit ==
    /\ tick = 0
    /\ NodeInit
    /\ IngressIdle
    /\ WorkersIdle
    /\ CacheCallIdle
    /\ DirectIdle
    /\ LoopIdle

\* an earlier call of ProcessEvent, for another envelope, completed
ConcPrefill ==
    /\ \A w \in Workers : wpc[w] = "idle"
    /\ Len(eventCache[1].keys) < MaxCacheSize
    /\ eventCache' = [eventCache EXCEPT ![1] =
           ProcessEvent(@, Filler(Len(@.keys) + 1, Now), Now).cache]
    /\ UNCHANGED <<tick, processedEvents, processingEvents, relayStore, nextKey,
                   arrivals, last, seenIds, handledIds, handledTwice,
                   okIds, pubCount, pubFailed, visited>>
    /\ UNCHANGED <<ingressVars, workerVars, cacheCallVars, directVars, loopVars>>

\* now := time.Now()
WorkerReadNow(w) ==
    /\ wpc[w] = "idle"
    /\ wpc' = [wpc EXCEPT ![w] = "read"]
    /\ wnow' = [wnow EXCEPT ![w] = Now]
    /\ UNCHANGED <<tick, wres, nodeVars, ingressVars, cacheCallVars, directVars, loopVars>>

\* the rest of ProcessEvent, with the instant read before
WorkerProcess(w) ==
    LET r == ProcessEvent(eventCache[1], Contended, wnow[w])
    IN  /\ wpc[w] = "read"
        /\ wpc' = [wpc EXCEPT ![w] = "done"]
        /\ wres' = [wres EXCEPT ![w] = IF r.err = "" THEN "PROCEED" ELSE r.err]
        /\ eventCache' = [eventCache EXCEPT ![1] = r.cache]
        /\ UNCHANGED <<tick, wnow, processedEvents, processingEvents, relayStore,
                       nextKey, arrivals, last, seenIds, handledIds,
                       handledTwice, okIds, pubCount, pubFailed, visited>>
        /\ UNCHANGED <<ingressVars, cacheCallVars, directVars, loopVars>>

ConcNext ==
    \/ Tick
    \/ ConcPrefill
    \/ \E w \in Workers : WorkerReadNow(w)
    \/ \E w \in Workers : WorkerProcess(w)

SpecConc ==
    ConcInit /\ [][ConcNext]_vars

PlainPadded ==
    Sign(NewEvent(0, 1, <<Tag("padding", 4, 0)>>, TextContent(5)), AuthorKey)

\* a plaintext of the wrapper kind, with proof of work and a "p" tag
PlainWrapper ==
    Layer(<<Tag("p", Pub(1), 0)>>, TextContent(5), AuthorKey, TRUE)

\* fits under StandardizedSize in one layer, not in two
PlainLarge ==
    Sign(NewEvent(0, 1, <<Tag("e", 64, 0)>>, TextContent(20000)), AuthorKey)

\* an event of another author, with other tags and content
PlainOutsider ==
    Sign(NewEvent(0, 1, <<Tag("t", 3, 0)>>, TextContent(7)), OutsiderKey)

\* larger than the largest plaintext nip44.Encrypt takes
PlainHuge ==
    Sign(NewEvent(0, 1, <<>>, TextContent(70000)), AuthorKey)

Plaintexts ==
    {P0, PlainPadded, PlainWrapper, PlainLarge, PlainOutsider, PlainHuge}

\* the duplicate-free paths over the Renoters' public keys
Paths ==
    {p \in UNION {[1..k -> {Pub(n) : n \in Nodes}] : k \in 1..MaxPath} :
        \A i, j \in DOMAIN p : i # j => p[i] # p[j]}

NodeOf(pub) ==
    CHOOSE n \in Nodes : Pub(n) = pub

\* the Renoters of path[1..k]
Hops(k) ==
    [i \in 1..k |-> NodeOf(path[i])]

MaxDeliveries ==
    MaxPath + 1

OnionInit ==
    /\ tick = 0
    /\ NodeInit
    /\ plain \in Plaintexts
    /\ path \in Paths
    /\ wrapped = [ok |-> FALSE, done |-> FALSE, ev |-> NoEvent]
    /\ WorkersIdle
    /\ CacheCallIdle
    /\ DirectIdle
    /\ LoopIdle

\* publishes the outermost 29000 layer before it is padded and wrapped
IngressWrapPublishFirst(okRelays) ==
    LET r      == WrapEvent(plain, path, nextKey, Now)
        errStr == WrapEventErr(plain, path, nextKey, Now)
        layers == WrapLayers(plain, path, Len(path), nextKey, Now)
    IN  /\ ~wrapped.done
        /\ callResult' = IF errStr = "failed to pad outermost 29000 event: exceeds target size"
                         THEN [reject |-> TRUE, msg |-> "event too large"]
                         ELSE [reject |-> FALSE, msg |-> ""]
        /\ wrapped' = [ok |-> r.ok, done |-> TRUE, ev |-> IF r.ok THEN r.ev ELSE NoEvent]
        /\ nextKey' = nextKey + Len(path) + 1
        /\ relayStore' = relayStore \cup (IF layers.ok THEN {layers.ev} ELSE {})
                                     \cup (IF r.ok /\ okRelays # {} THEN {r.ev} ELSE {})
        /\ UNCHANGED <<tick, eventCache, processedEvents, processingEvents, arrivals,
                       last, seenIds, handledIds, handledTwice, okIds,
                       pubCount, pubFailed, visited>>
        /\ UNCHANGED <<plain, path, workerVars, cacheCallVars, callArgs, loopVars>>

\* rejectEventHandler: WrapEvent, then PublishMany of the 29001; callResult
\* is the pair (reject, msg) it returns, reject being true when the error
\* of WrapEvent contains "exceeds target size" or "exceeds maximum"
IngressWrap(okRelays) ==
    LET r      == WrapEvent(plain, path, nextKey, Now)
        errStr == WrapEventErr(plain, path, nextKey, Now)
    IN  /\ ~wrapped.done
        /\ callResult' = IF errStr = "failed to pad outermost 29000 event: exceeds target size"
                         THEN [reject |-> TRUE, msg |-> "event too large"]
                         ELSE [reject |-> FALSE, msg |-> ""]
        /\ wrapped' = [ok |-> r.ok, done |-> TRUE, ev |-> IF r.ok THEN r.ev ELSE NoEvent]
        /\ nextKey' = nextKey + Len(path) + 1
        /\ relayStore' = IF r.ok /\ okRelays # {}
                         THEN relayStore \cup {r.ev} ELSE relayStore
        /\ UNCHANGED <<tick, eventCache, processedEvents, processingEvents, arrivals,
                       last, seenIds, handledIds, handledTwice, okIds,
                       pubCount, pubFailed, visited>>
        /\ UNCHANGED <<plain, path, workerVars, cacheCallVars, callArgs, loopVars>>

\* the subscription of Renoter n (kind 29001, "p" tag naming n) yields ev
Deliver(n, ev, okRelays) ==
    /\ arrivals < MaxDeliveries
    /\ ev.kind = StandardizedWrapperKind
    /\ IsAddressedTo(ev.tags, Pub(n))
    /\ LoopIteration(n, ev, okRelays)
    /\ UNCHANGED <<tick, ingressVars, workerVars, cacheCallVars, directVars, loopVars>>

OnionNext ==
    \/ \E okRelays \in SUBSET Relays : IngressWrap(okRelays)
    \/ \E n \in Nodes, ev \in relayStore :
           \E okRelays \in PublishOutcomes(n, ev) : Deliver(n, ev, okRelays)

SpecOnion ==
    OnionInit /\ [][OnionNext]_vars

RECURSIVE Wrappers(_)
Wrappers(e) ==
    IF e = NoEvent THEN {}
    ELSE IF e.content.k # "enc" THEN {}
    ELSE LET parsed == Unmarshal(e.content.pt)
         IN  IF ~parsed.ok THEN {}
             ELSE (IF parsed.ev.kind = WrapperEventKind /\ parsed.ev.content.k = "enc"
                   THEN {parsed.ev} ELSE {})
                  \cup Wrappers(parsed.ev)

NumIds ==
    MaxCacheSize

CacheInit ==
    /\ tick = 0
    /\ NodeInit
    /\ IngressIdle
    /\ WorkersIdle
    /\ CacheCallIdle
    /\ DirectIdle
    /\ LoopIdle

CacheCall(id) ==
    LET r == CheckAndMark(eventCache[1], id, Now, MaxCacheSize, CutoffSeconds)
    IN  /\ eventCache' = [eventCache EXCEPT ![1] = r.cache]
        /\ cLast' = [id |-> id, now |-> Now, seen |-> r.seen,
                     prevMark |-> cMarkedAt, others |-> cOthers]
        /\ cMarkedAt' = IF id = 1 /\ ~r.seen THEN Now ELSE cMarkedAt
        /\ cOthers' = IF r.seen THEN cOthers
                      ELSE IF id = 1 THEN 0
                      ELSE Min(cOthers + 1, MaxCacheSize + 1)
        /\ UNCHANGED <<tick, processedEvents, processingEvents, relayStore, nextKey,
                       arrivals, last, seenIds, handledIds, handledTwice,
                       okIds, pubCount, pubFailed, visited>>
        /\ UNCHANGED <<ingressVars, workerVars, directVars, loopVars>>

CacheNext ==
    \/ Tick
    \/ \E id \in 1..NumIds : CacheCall(id)

SpecCache ==
    CacheInit /\ [][CacheNext]_vars

\* C3 (as stated): once CheckAndMark has recorded the watched id at instant
\* t, every later call with that id and a now in [t, t + cutoffDuration)
\* returns true, whatever calls with other ids happen in between.
C3_SeenWithinCutoff ==
    (/\ cLast.id = 1
     /\ cLast.prevMark >= 0
     /\ cLast.now >= cLast.prevMark
     /\ cLast.now < cLast.prevMark + CutoffSeconds)
    => cLast.seen

\* C3 (amended): once CheckAndMark has recorded the watched id at instant t,
\* every later call with that id and a now in [t, t + cutoffDuration)
\* returns true, provided fewer than maxSize - max(1, maxSize/4) other ids
\* were recorded in between (the capacity prune evicts the oldest quarter).
C3_SeenWithinCutoffUnlessPruned ==
    (/\ cLast.id = 1
     /\ cLast.prevMark >= 0
     /\ cLast.now >= cLast.prevMark
     /\ cLast.now < cLast.prevMark + CutoffSeconds
     /\ cLast.others < MaxCacheSize - RemoveCount(MaxCacheSize))
    => cLast.seen

\* the watched id is looked up again, later but within the cutoff, after
\* other ids were recorded, and is found
C3_Witness ==
    /\ cLast.id = 1
    /\ cLast.prevMark >= 0
    /\ cLast.now > cLast.prevMark
    /\ cLast.now < cLast.prevMark + CutoffSeconds
    /\ cLast.others = MaxCacheSize - RemoveCount(MaxCacheSize) - 1
    /\ cLast.seen

(***************************************************************************)
(* SpecPad: padEventToExactSize called directly on events of every tag     *)
(* list and size around the target size.                                   *)
(***************************************************************************)
\* the target sizes: StandardizedSize and a smaller one
PadTargets ==
    {StandardizedSize \div 64, StandardizedSize}

PadTagLists ==
    {<<>>,
     <<Tag("p", Pub(1), 0)>>,
     <<Tag("p", Pub(1), 0), Tag("nonce", 3, PoWDifficulty)>>,
     <<Tag("padding", 4, 0)>>,
     <<Tag("padding", 0, 0), Tag("p", Pub(1), 0), Tag("padding", 2, 0)>>}

\* an event with the given tags and a content of c characters, signed by
\* the author key (a signed event states its canonical id) or not
PadEvent(tags, c, signed) ==
    LET e == NewEvent(0, WrapperEventKind, tags, TextContent(c))
    IN  IF signed THEN Sign(e, AuthorKey) ELSE [e EXCEPT !.pubkey = GetPublicKey(AuthorKey)]

\* the content length for which the event and an empty padding tag have
\* exactly the target size
FittingContent(tags, signed, targetSize) ==
    LET e == PadEvent(tags, 0, signed)
    IN  targetSize
        - JSONLen([e EXCEPT !.tags = Append(e.tags, Tag("padding", 0, 0))])

\* small events, and events within MaxPadSlack characters of the largest
\* event that can be padded
PadContents(tags, signed, targetSize) ==
    (0..MaxPadSlack)
    \cup {FittingContent(tags, signed, targetSize) + d : d \in (0 - MaxPadSlack)..MaxPadSlack}

PadInputs ==
    UNION {{[fn |-> "padEventToExactSize", event |-> PadEvent(q[1], c, q[2]),
             targetSize |-> q[3]] : c \in PadContents(q[1], q[2], q[3])} :
           q \in PadTagLists \X BOOLEAN \X PadTargets}

PadInit ==
    /\ tick = 0
    /\ NodeInit
    /\ IngressIdle
    /\ WorkersIdle
    /\ CacheCallIdle
    /\ callArgs \in PadInputs
    /\ callResult = NoResult
    /\ LoopIdle

PadCall ==
    /\ callResult = NoResult
    /\ callResult' = padEventToExactSize(callArgs.event, callArgs.targetSize)
    /\ UNCHANGED <<tick, nodeVars, ingressVars, workerVars, cacheCallVars, callArgs, loopVars>>

PadNext ==
    PadCall

SpecPad ==
    PadInit /\ [][PadNext]_vars

\* the measured overhead of appending an empty padding tag to event
EmptyTagOverhead(event) ==
    JSONLen([event EXCEPT !.tags = Append(event.tags, Tag("padding", 0, 0))])
    - JSONLen(event)

\* C17: padEventToExactSize(E, L) returns an event of serialized length
\* exactly L whenever size(E) + T <= L, T the overhead of an empty padding
\* tag, and an error and no event whenever size(E) + T > L.
C17_PadsExactlyOrFails ==
    callResult # NoResult =>
        IF JSONLen(callArgs.event) + EmptyTagOverhead(callArgs.event) <= callArgs.targetSize
        THEN callResult.ok /\ JSONLen(callResult.ev) = callArgs.targetSize
        ELSE ~callResult.ok /\ DOMAIN callResult = {"ok"}

\* the boundary: the event and an empty padding tag have exactly the target
\* size, and the event comes back padded with an empty string
C17_Witness ==
    /\ callResult # NoResult
    /\ JSONLen(callArgs.event) + EmptyTagOverhead(callArgs.event) = callArgs.targetSize
    /\ callArgs.targetSize = StandardizedSize
    /\ callResult.ok
    /\ callResult.ev.tags[Len(callResult.ev.tags)] = Tag("padding", 0, 0)

\* C18: for an event E that states its canonical id, removing the padding
\* tags from padEventToExactSize(E, L) gives back E in every field.
C18_UnpadRestores ==
    (callResult # NoResult /\ callResult.ok /\ CheckID(callArgs.event))
    => [callResult.ev EXCEPT !.tags = RemovePadding(@)] = callArgs.event

\* C18 (amended): for an event E that states its canonical id and has no
\* padding tag of its own, removing the padding tags from
\* padEventToExactSize(E, L) gives back E in every field.
C18_UnpadRestoresUnpadded ==
    (/\ callResult # NoResult
     /\ callResult.ok
     /\ CheckID(callArgs.event)
     /\ RemovePadding(callArgs.event.tags) = callArgs.event.tags)
    => (/\ [callResult.ev EXCEPT !.tags = RemovePadding(@)] = callArgs.event
        /\ GetID([callResult.ev EXCEPT !.tags = RemovePadding(@)]) = callArgs.event.id
        /\ Len(callResult.ev.tags) = Len(callArgs.event.tags) + 1)

\* a signed event with tags of its own was padded with a non-empty string
\* and restored
C18_Witness ==
    /\ callResult # NoResult
    /\ callResult.ok
    /\ CheckID(callArgs.event)
    /\ Len(callArgs.event.tags) > 0
    /\ RemovePadding(callArgs.event.tags) = callArgs.event.tags
    /\ callResult.ev.tags[Len(callResult.ev.tags)].val > 0
    /\ [callResult.ev EXCEPT !.tags = RemovePadding(@)] = callArgs.event

(***************************************************************************)
(* SpecPath: ValidatePath called directly on lists of configured entries,  *)
(* and WrapEvent called directly on paths of hop keys, the empty path and  *)
(* paths that repeat a key included.                                       *)
(***************************************************************************)
PathKeys ==
    {Pub(n) : n \in Nodes}

PathEntries ==
    {[form |-> f, key |-> 0] : f \in {"empty", "garbage", "short"}}
    \cup {[form |-> f, key |-> k] : f \in {"npub", "nsec"}, k \in PathKeys}

SeqsUpTo(S, n) ==
    UNION {[1..k -> S] : k \in 0..n}

PathInputs ==
    {[fn |-> "ValidatePath", npubs |-> l] : l \in SeqsUpTo(PathEntries, MaxPath)}
    \cup {[fn |-> "WrapEvent", renterPath |-> l] : l \in SeqsUpTo(PathKeys, MaxPath)}

PathInit ==
    /\ tick = 0
    /\ NodeInit
    /\ IngressIdle
    /\ WorkersIdle
    /\ CacheCallIdle
    /\ callArgs \in PathInputs
    /\ callResult = NoResult
    /\ LoopIdle

ValidateCall ==
    /\ callResult = NoResult
    /\ callArgs.fn = "ValidatePath"
    /\ callResult' = ValidatePath(callArgs.npubs)
    /\ UNCHANGED <<tick, nodeVars, ingressVars, workerVars, cacheCallVars, callArgs, loopVars>>

WrapCall ==
    /\ callResult = NoResult
    /\ callArgs.fn = "WrapEvent"
    /\ callResult' = WrapEvent(P0, callArgs.renterPath, nextKey, Now)
    /\ UNCHANGED <<tick, nodeVars, ingressVars, workerVars, cacheCallVars, callArgs, loopVars>>

PathNext ==
    \/ ValidateCall
    \/ WrapCall

SpecPath ==
    PathInit /\ [][PathNext]_vars

Repeats(keys) ==
    \E i, j \in 1..Len(keys) : i # j /\ keys[i] = keys[j]

\* C19: WrapEvent returns an error and no envelope when the path is empty
\* and when the path holds the same hop key more than once.
C19_WrapRejectsEmptyAndDuplicates ==
    (/\ callResult # NoResult
     /\ callArgs.fn = "WrapEvent"
     /\ Len(callArgs.renterPath) = 0 \/ Repeats(callArgs.renterPath))
    => (~callResult.ok /\ DOMAIN callResult = {"ok"})

\* C19 (amended): WrapEvent returns an error and no envelope when the path
\* is empty; a list of npubs that holds the same hop key more than once is
\* rejected by ValidatePath, with the duplicate error and a nil path.
C19_EmptyAtWrapDuplicatesAtValidate ==
    /\ (/\ callResult # NoResult
        /\ callArgs.fn = "WrapEvent"
        /\ Len(callArgs.renterPath) = 0)
       => (~callResult.ok /\ DOMAIN callResult = {"ok"})
    /\ (/\ callResult # NoResult
        /\ callArgs.fn = "ValidatePath"
        /\ \A i \in 1..Len(callArgs.npubs) : callArgs.npubs[i].form = "npub"
        /\ Repeats([i \in 1..Len(callArgs.npubs) |-> callArgs.npubs[i].key]))
       => (/\ ~callResult.ok
           /\ callResult.keys = <<>>
           /\ callResult.err = "duplicate Renoters in path")

\* WrapEvent was called with the empty path and returned its error
C19_Witness ==
    /\ callResult # NoResult
    /\ callArgs.fn = "WrapEvent"
    /\ Len(callArgs.renterPath) = 0
    /\ ~callResult.ok

\* C20: ValidatePath returns an error and a nil result when the list is
\* empty, when an entry is empty or not a valid npub, and when two entries
\* decode to the same key; otherwise it returns the decoded keys in input
\* order, as many as the entries.
C20_ValidatePath ==
    (callResult # NoResult /\ callArgs.fn = "ValidatePath") =>
        LET npubs == callArgs.npubs
            n     == Len(npubs)
        IN  IF \/ n = 0
               \/ \E i \in 1..n : npubs[i].form # "npub"
               \/ \E i, j \in 1..n : i # j /\ npubs[i].key = npubs[j].key
            THEN ~callResult.ok /\ callResult.keys = <<>> /\ callResult.err # ""
            ELSE /\ callResult.ok
                 /\ callResult.err = ""
                 /\ Len(callResult.keys) = n
                 /\ \A i \in 1..n : callResult.keys[i] = npubs[i].key

\* a longest list of distinct npubs was accepted, not in key order
C20_Witness ==
    /\ callResult # NoResult
    /\ callArgs.fn = "ValidatePath"
    /\ callResult.ok
    /\ Len(callResult.keys) = MaxPath
    /\ callResult.keys[1] > callResult.keys[MaxPath]

\* w and the events nested in it are the kind-29000 layers for the hops
\* renterPath[i..], each naming its hop in a "p" tag and encrypted to it, and
\* the plaintext of the last layer is originalEvent
RECURSIVE LayersFrom(_, _, _, _)
LayersFrom(w, renterPath, i, originalEvent) ==
    IF i > Len(renterPath) THEN w = originalEvent
    ELSE /\ w.kind = WrapperEventKind
         /\ \E t \in 1..Len(w.tags) : w.tags[t] = Tag("p", renterPath[i], 0)
         /\ \A t \in 1..Len(w.tags) : w.tags[t].name = "p" => w.tags[t].val = renterPath[i]
         /\ w.content.k = "enc"
         /\ w.content.ck = {renterPath[i], w.pubkey}
         /\ w.content.pt.json = "event"
         /\ LayersFrom(w.content.pt.ev, renterPath, i + 1, originalEvent)

\* C21: for a path [H1..HN], N >= 1, WrapEvent returns one kind-29001
\* envelope whose "p" tag names H1 and whose plaintext is a kind-29000 layer
\* for H1; layer i is a kind-29000 envelope with "p" tag Hi whose plaintext
\* is layer i + 1, and the plaintext of layer N is the original event:
\* exactly N layers, also for N = 1.
C21_OneLayerPerHop ==
    (/\ callResult # NoResult
     /\ callArgs.fn = "WrapEvent"
     /\ Len(callArgs.renterPath) >= 1)
    => LET renterPath == callArgs.renterPath
           s          == callResult.ev
       IN  /\ callResult.ok
           /\ s.kind = StandardizedWrapperKind
           /\ s.tags = <<Tag("p", renterPath[1], 0)>>
           /\ s.content.k = "enc"
           /\ s.content.ck = {renterPath[1], s.pubkey}
           /\ s.content.pt.json = "event"
           /\ LayersFrom(s.content.pt.ev, renterPath, 1, P0)

\* WrapEvent returned an envelope of MaxPath layers for a path of MaxPath
\* different hops
C21_Witness ==
    /\ callResult # NoResult
    /\ callArgs.fn = "WrapEvent"
    /\ Len(callArgs.renterPath) = MaxPath
    /\ ~Repeats(callArgs.renterPath)
    /\ callResult.ok
    /\ LayersFrom(callResult.ev.content.pt.ev, callArgs.renterPath, 1, P0)
    /\ ~LayersFrom(callResult.ev.content.pt.ev, callArgs.renterPath, 2, P0)

\* the outermost 29000 layer WrapEvent builds for the event and the path of
\* the ingress, before it is padded
OutermostLayer ==
    WrapLayers(plain, path, Len(path), FirstFreshKey, 0)

\* C22: when the serialized outermost 29000 layer plus the overhead of the
\* padding tag exceeds StandardizedSize, WrapEvent returns an error and no
\* envelope, and the ingress publishes nothing to any relay for that event,
\* neither before nor after the failure.
C22_OversizeNothingPublished ==
    (/\ wrapped.done
     /\ OutermostLayer.ok
     /\ JSONLen(OutermostLayer.ev) + EmptyTagOverhead(OutermostLayer.ev) > StandardizedSize)
    => (/\ ~wrapped.ok
        /\ wrapped.ev = NoEvent
        /\ relayStore = {}
        /\ arrivals = 0)

\* the ingress handled a large event on a path of two hops: one layer fits,
\* the second does not
C22_Witness ==
    /\ wrapped.done
    /\ ~wrapped.ok
    /\ plain = PlainLarge
    /\ Len(path) = 2
    /\ JSONLen(WrapLayers(plain, path, 1, FirstFreshKey, 0).ev) < StandardizedSize
    /\ JSONLen(OutermostLayer.ev) > StandardizedSize
    /\ relayStore = {}

(***************************************************************************)
(* SpecLoop: the goroutine of SubscribeToWrappedEvents of Renoter 1, one   *)
(* action per step.  The relays put envelopes of the catalogue in the      *)
(* subscription channel; the goroutine selects between the cancellation of *)
(* the context and the channel, and runs ProcessEvent, HandleEvent and the *)
(* wait for the results of PublishMany on the envelope it received before  *)
(* it selects again.  The signal handler of main cancels the context and   *)
(* ends the process.  The clock stays at instant 0.                        *)
(***************************************************************************)
\* a relay delivers an envelope to the subscription
Arrive(ev) ==
    /\ ~exited
    /\ ~eventsClosed
    /\ arrivals < MaxArrivals
    /\ events' = Append(events, ev)
    /\ arrivals' = arrivals + 1
    /\ UNCHANGED <<tick, eventCache, processedEvents, processingEvents, relayStore,
                   nextKey, last, seenIds, handledIds, handledTwice, okIds,
                   pubCount, pubFailed, visited>>
    /\ UNCHANGED <<ingressVars, workerVars, cacheCallVars, directVars>>
    /\ UNCHANGED <<eventsClosed, ctxDone, lpc, cur, curOut, exited, loopErrs>>

\* main: the signal handler calls cancel()
Cancel ==
    /\ ~exited
    /\ ~ctxDone
    /\ ctxDone' = TRUE
    /\ UNCHANGED <<tick, nodeVars, ingressVars, workerVars, cacheCallVars, directVars>>
    /\ UNCHANGED <<events, eventsClosed, lpc, cur, curOut, exited, loopErrs>>

\* main: os.Exit(0) after cancel(), or main returning from <-ctx.Done()
Exit ==
    /\ ~exited
    /\ ctxDone
    /\ exited' = TRUE
    /\ UNCHANGED <<tick, nodeVars, ingressVars, workerVars, cacheCallVars, directVars>>
    /\ UNCHANGED <<events, eventsClosed, ctxDone, lpc, cur, curOut, loopErrs>>

\* the pool closes the channel SubscribeMany returned
CloseEvents ==
    /\ ~exited
    /\ ~eventsClosed
    /\ eventsClosed' = TRUE
    /\ UNCHANGED <<tick, nodeVars, ingressVars, workerVars, cacheCallVars, directVars>>
    /\ UNCHANGED <<events, ctxDone, lpc, cur, curOut, exited, loopErrs>>

\* select: case <-ctx.Done(), or a receive that finds the channel closed
LoopReturn ==
    /\ ~exited
    /\ lpc = "select"
    /\ ctxDone \/ (eventsClosed /\ events = <<>>)
    /\ lpc' = "returned"
    /\ UNCHANGED <<tick, nodeVars, ingressVars, workerVars, cacheCallVars, directVars>>
    /\ UNCHANGED <<events, eventsClosed, ctxDone, cur, curOut, exited, loopErrs>>

\* select: case relayEvent, ok := <-events, up to the call of ProcessEvent
LoopReceive ==
    /\ ~exited
    /\ lpc = "select"
    /\ events # <<>>
    /\ LET ev      == Head(events)
           skipped == Already(1, ev.id)
       IN  /\ events' = Tail(events)
           /\ seenIds' = seenIds \cup {<<1, ev.id>>}
           /\ processingEvents' = IF skipped THEN processingEvents
                                  ELSE [processingEvents EXCEPT ![1] = @ \cup {ev.id}]
           /\ lpc' = IF skipped THEN "select" ELSE "process"
           /\ cur' = IF skipped THEN NoEvent ELSE ev
           /\ last' = [node |-> 1, ev |-> ev, now |-> Now,
                       stage |-> IF skipped THEN "SKIP" ELSE "PROCESSING",
                       handled |-> FALSE, out |-> NoEvent, published |-> FALSE,
                       dup |-> <<1, ev.id>> \in seenIds, prior |-> visited,
                       err |-> FALSE]
    /\ UNCHANGED <<tick, eventCache, processedEvents, relayStore, nextKey, arrivals,
                   handledIds, handledTwice, okIds, pubCount, pubFailed, visited>>
    /\ UNCHANGED <<ingressVars, workerVars, cacheCallVars, directVars>>
    /\ UNCHANGED <<eventsClosed, ctxDone, curOut, exited, loopErrs>>

\* returns from the goroutine when ProcessEvent fails
LoopProcessStopOnError ==
    /\ ~exited
    /\ lpc = "process"
    /\ LET pr == ProcessEvent(eventCache[1], cur, Now)
       IN  /\ eventCache' = [eventCache EXCEPT ![1] = pr.cache]
           /\ lpc' = IF pr.err # "" THEN "returned" ELSE "handle"
           /\ cur' = IF pr.err # "" THEN NoEvent ELSE cur
           /\ loopErrs' = IF pr.err # "" THEN loopErrs + 1 ELSE loopErrs
           /\ last' = IF pr.err # "" THEN [last EXCEPT !.stage = pr.err] ELSE last
    /\ UNCHANGED <<tick, processedEvents, processingEvents, relayStore, nextKey,
                   arrivals, seenIds, handledIds, handledTwice, okIds,
                   pubCount, pubFailed, visited>>
    /\ UNCHANGED <<ingressVars, workerVars, cacheCallVars, directVars>>
    /\ UNCHANGED <<events, eventsClosed, ctxDone, curOut, exited>>

\* err := r.ProcessEvent(ctx, ev); on an error: continue
LoopProcess ==
    /\ ~exited
    /\ lpc = "process"
    /\ LET pr == ProcessEvent(eventCache[1], cur, Now)
       IN  /\ eventCache' = [eventCache EXCEPT ![1] = pr.cache]
           /\ lpc' = IF pr.err # "" THEN "select" ELSE "handle"
           /\ cur' = IF pr.err # "" THEN NoEvent ELSE cur
           /\ loopErrs' = IF pr.err # "" THEN loopErrs + 1 ELSE loopErrs
           /\ last' = IF pr.err # "" THEN [last EXCEPT !.stage = pr.err] ELSE last
    /\ UNCHANGED <<tick, processedEvents, processingEvents, relayStore, nextKey,
                   arrivals, seenIds, handledIds, handledTwice, okIds,
                   pubCount, pubFailed, visited>>
    /\ UNCHANGED <<ingressVars, workerVars, cacheCallVars, directVars>>
    /\ UNCHANGED <<events, eventsClosed, ctxDone, curOut, exited>>

\* err = r.HandleEvent(ctx, ev), up to its return or its call of PublishMany
LoopHandle ==
    /\ ~exited
    /\ lpc = "handle"
    /\ LET h        == HandleEvent(1, cur, Now, nextKey)
           id       == cur.id
           returned == h.out = NoEvent
       IN  /\ handledIds' = handledIds \cup {<<1, id>>}
           /\ handledTwice' = IF <<1, id>> \in handledIds
                              THEN handledTwice \cup {<<1, id>>} ELSE handledTwice
           /\ nextKey' = IF h.stage = "EMIT_S_NEXT" THEN nextKey + 1 ELSE nextKey
           /\ processedEvents' = IF returned
                                 THEN [processedEvents EXCEPT ![1] = @ \cup {id}]
                                 ELSE processedEvents
           /\ processingEvents' = IF returned
                                  THEN [processingEvents EXCEPT ![1] = @ \ {id}]
                                  ELSE processingEvents
           /\ lpc' = IF returned THEN "select" ELSE "publish"
           /\ cur' = IF returned THEN NoEvent ELSE cur
           /\ curOut' = IF returned THEN NoEvent ELSE h
           /\ loopErrs' = IF returned /\ h.err THEN loopErrs + 1 ELSE loopErrs
           /\ last' = IF returned
                      THEN [last EXCEPT !.stage = h.stage, !.handled = TRUE, !.err = h.err]
                      ELSE [last EXCEPT !.stage = "PUBLISHING", !.handled = TRUE,
                                        !.out = h.out]
    /\ UNCHANGED <<tick, eventCache, relayStore, arrivals, seenIds, okIds,
                   pubCount, pubFailed, visited>>
    /\ UNCHANGED <<ingressVars, workerVars, cacheCallVars, directVars>>
    /\ UNCHANGED <<events, eventsClosed, ctxDone, exited>>

\* puts the envelope back in the channel when no relay accepted the publish
LoopPublishedRequeue(okRelays) ==
    /\ ~exited
    /\ lpc = "publish"
    /\ LET success == okRelays # {}
           id      == cur.id
       IN  /\ relayStore' = IF success THEN relayStore \cup {curOut.out} ELSE relayStore
           /\ pubCount' = IF success THEN pubCount + 1 ELSE pubCount
           /\ pubFailed' = (pubFailed \/ ~success)
           /\ visited' = IF success THEN Append(visited, 1) ELSE visited
           /\ events' = IF success THEN events ELSE Append(events, cur)
           /\ processedEvents' = IF success
                                 THEN [processedEvents EXCEPT ![1] = @ \cup {id}]
                                 ELSE processedEvents
           /\ processingEvents' = [processingEvents EXCEPT ![1] = @ \ {id}]
           /\ loopErrs' = IF success THEN loopErrs ELSE loopErrs + 1
           /\ last' = [last EXCEPT !.stage = IF success THEN curOut.stage
                                             ELSE "PUBLISH_FAILED",
                                   !.published = success, !.err = ~success]
    /\ lpc' = "select"
    /\ cur' = NoEvent
    /\ curOut' = NoEvent
    /\ UNCHANGED <<tick, eventCache, nextKey, arrivals, seenIds, handledIds,
                   handledTwice, okIds>>
    /\ UNCHANGED <<ingressVars, workerVars, cacheCallVars, directVars>>
    /\ UNCHANGED <<eventsClosed, ctxDone, exited>>

\* HandleEvent: the results of PublishMany are in, okRelays accepted; the
\* return of HandleEvent and the rest of the iteration
LoopPublished(okRelays) ==
    /\ ~exited
    /\ lpc = "publish"
    /\ LET success == okRelays # {}
           id      == cur.id
       IN  /\ relayStore' = IF success THEN relayStore \cup {curOut.out} ELSE relayStore
           /\ pubCount' = IF success THEN pubCount + 1 ELSE pubCount
           /\ pubFailed' = (pubFailed \/ ~success)
           /\ visited' = IF success THEN Append(visited, 1) ELSE visited
           /\ processedEvents' = [processedEvents EXCEPT ![1] = @ \cup {id}]
           /\ processingEvents' = [processingEvents EXCEPT ![1] = @ \ {id}]
           /\ loopErrs' = IF success THEN loopErrs ELSE loopErrs + 1
           /\ last' = [last EXCEPT !.stage = IF success THEN curOut.stage
                                             ELSE "PUBLISH_FAILED",
                                   !.published = success, !.err = ~success]
    /\ lpc' = "select"
    /\ cur' = NoEvent
    /\ curOut' = NoEvent
    /\ UNCHANGED <<tick, eventCache, nextKey, arrivals, seenIds, handledIds,
                   handledTwice, okIds>>
    /\ UNCHANGED <<ingressVars, workerVars, cacheCallVars, directVars>>
    /\ UNCHANGED <<events, eventsClosed, ctxDone, exited>>

LoopNext ==
    \/ \E ev \in Catalogue : Arrive(ev)
    \/ Cancel
    \/ Exit
    \/ CloseEvents
    \/ LoopReturn
    \/ LoopReceive
    \/ LoopProcess
    \/ LoopHandle
    \/ \E okRelays \in SUBSET Relays : LoopPublished(okRelays)

SpecLoop ==
    Init /\ [][LoopNext]_vars

\* the steps of the goroutine are taken when they stay possible; a relay
\* may never answer a publish, but PublishMany gives up once the context
\* it was given is cancelled. LoopHandle is possible exactly while the
\* goroutine stands before HandleEvent and the process has not ended, so
\* its weak fairness is written out on that condition
LoopFairness ==
    /\ WF_vars(LoopReturn)
    /\ WF_vars(LoopReceive)
    /\ WF_vars(LoopProcess)
    /\ ([]<>(lpc # "handle" \/ exited) \/ []<><<LoopHandle>>_vars)
    /\ WF_vars(ctxDone /\ \E okRelays \in SUBSET Relays : LoopPublished(okRelays))

SpecLoopLive ==
    Init /\ [][LoopNext]_vars /\ LoopFairness

\* the last iteration of the loop has ended
IterationEnded ==
    /\ last.node # 0
    /\ last.stage \notin {"PROCESSING", "PUBLISHING"}

\* C23: HandleEvent returns without an error after a publish exactly when a
\* relay accepted the event; when every relay fails it returns an error,
\* the envelope is neither retried nor put back in the channel, its id stays
\* in the replay cache and in processedEvents, and a later delivery of an
\* envelope with that id is not handled.
C23_ForwardedIffAccepted ==
    /\ (IterationEnded /\ last.handled /\ last.out # NoEvent)
       => /\ last.err <=> ~last.published
          /\ last.stage = "PUBLISH_FAILED" <=> ~last.published
          /\ last.published => last.out \in relayStore
          /\ ~last.published
             => /\ last.ev.id \in DOMAIN eventCache[1].store
                /\ last.ev.id \in processedEvents[1]
                /\ last.ev.id \notin processingEvents[1]
    /\ Len(events) + Cardinality(seenIds) <= arrivals
    /\ handledTwice = {}
    /\ last.dup => (~last.handled /\ last.out = NoEvent /\ last.stage = "SKIP")

\* the publish of an envelope failed on every relay; the envelope was
\* delivered again and skipped
C23_Witness ==
    /\ arrivals = 2
    /\ events = <<>>
    /\ pubFailed
    /\ pubCount = 0
    /\ loopErrs = 1
    /\ last.dup
    /\ last.stage = "SKIP"
    /\ last.ev.id \in DOMAIN eventCache[1].store
    /\ Cardinality(handledIds) = 1

\* C28: an error of ProcessEvent or HandleEvent does not end the loop: the
\* goroutine returns only after a cancellation or the closing of the
\* channel, after every iteration it is back at the select, and it skips
\* only envelopes whose id it received before.
C28_ErrorsDoNotStopTheLoop ==
    /\ lpc = "returned" => (ctxDone \/ eventsClosed)
    /\ IterationEnded => (lpc \in {"select", "returned"} /\ cur = NoEvent)
    /\ (last.node # 0 /\ last.stage = "SKIP") => last.dup
    /\ (last.node # 0 /\ ~last.dup /\ IterationEnded)
       => last.stage = ProcessEvent(NewEventCache, last.ev, last.now).err
          \/ last.handled

\* after an iteration that ended in an error, an envelope with a new id was
\* handled and published, and the loop waits for the next
C28_Witness ==
    /\ loopErrs >= 1
    /\ ~pubFailed
    /\ last.published
    /\ ~last.dup
    /\ lpc = "select"
    /\ ~ctxDone
    /\ ~eventsClosed

\* C29: after the context is cancelled the loop eventually returns, and
\* when the process ends no envelope is part-way through a step of its
\* processing.
C29_GracefulShutdown ==
    /\ ctxDone ~> (lpc = "returned" \/ exited)
    /\ [](exited => lpc \in {"select", "returned"})

\* C30: envelopes are processed concurrently: while the publish of one
\* envelope is pending, an envelope waiting in the channel can be taken
\* from it and processed.
C30_OthersProceedWhilePublishing ==
    (lpc = "publish" /\ events # <<>> /\ ~exited) => ENABLED LoopReceive

(***************************************************************************)
(* SpecMark: CheckAndMark called once, directly, on every cache of up to   *)
(* MaxFill entries that earlier calls can have left, for every capacity    *)
(* from 1 to MaxFill.  The ids of a cache are 1..k in insertion order.     *)
(***************************************************************************)
\* first-seen instants: the start, one cutoff later, one second after that
MarkInstants ==
    {0, CutoffSeconds, CutoffSeconds + 1}

\* the instants a call is made at
MarkNows ==
    MarkInstants \cup {2 * CutoffSeconds, 2 * CutoffSeconds + 1}

\* the stamps of k entries recorded with a non-decreasing clock: p[1]
\* entries at instant 0, then entries one cutoff later up to index p[2],
\* the rest a second later; entries more than a cutoff apart never
\* survive the call that recorded the later one
SortedStamps(k) ==
    {[i \in 1..k |-> IF i <= p[1] THEN 0
                     ELSE IF i <= p[2] THEN CutoffSeconds
                     ELSE CutoffSeconds + 1] :
       p \in {q \in (0..k) \X (0..k) : q[1] <= q[2] /\ (q[1] = 0 \/ q[2] = k)}}

Stamps(k) ==
    SortedStamps(k) \cup (IF k <= MaxScrambled THEN [1..k -> MarkInstants] ELSE {})

\* the cache that holds ids 1..Len(stamps), inserted in that order
StampedCache(stamps) ==
    [store |-> [id \in 1..Len(stamps) |-> stamps[id]],
     keys  |-> [i \in 1..Len(stamps) |-> i]]

\* the calls on a cache of capacity m: every cache of at most m entries,
\* every id it holds and one it does not, every instant
MarkInputs(m) ==
    UNION {{[fn |-> "CheckAndMark", cache |-> StampedCache(st), eventID |-> id,
             now |-> t, maxSize |-> m] :
              st \in Stamps(k), id \in 1..(k + 1), t \in MarkNows} :
           k \in 0..m}

MarkInit ==
    /\ tick = 0
    /\ NodeInit
    /\ IngressIdle
    /\ WorkersIdle
    /\ CacheCallIdle
    /\ \E m \in 1..MaxFill : callArgs \in MarkInputs(m)
    /\ callResult = NoResult
    /\ LoopIdle

MarkCall ==
    /\ callResult = NoResult
    /\ callResult' = CheckAndMark(callArgs.cache, callArgs.eventID, callArgs.now,
                                  callArgs.maxSize, CutoffSeconds)
    /\ UNCHANGED <<tick, nodeVars, ingressVars, workerVars, cacheCallVars, callArgs, loopVars>>

SpecMark ==
    MarkInit /\ [][MarkCall]_vars

\* CheckAndMark has been called and has returned
MarkDone ==
    callResult # NoResult

\* the entries of cache c were recorded with a non-decreasing clock, and
\* now is not before the last of them
InOrder(c, now) ==
    /\ \A i \in 1..Len(c.keys), j \in 1..Len(c.keys) :
          i <= j => c.store[c.keys[i]] <= c.store[c.keys[j]]
    /\ \A id \in DOMAIN c.store : c.store[id] <= now

\* the ids whose entry of before the call is gone after it (the id of the
\* call, when it was not found, was recorded anew)
Evicted ==
    {id \in DOMAIN callArgs.cache.store :
        \/ id \notin DOMAIN callResult.cache.store
        \/ (id = callArgs.eventID /\ ~callResult.seen)}

\* the max(1, maxSize/4) oldest ids of the cache the call was made on
OldestQuarter ==
    {callArgs.cache.keys[i] : i \in 1..Max(1, callArgs.maxSize \div 4)}

\* the ids of the cache the call was made on first seen before now - cutoffDuration
AgedOut ==
    {id \in DOMAIN callArgs.cache.store :
        callArgs.cache.store[id] < callArgs.now - CutoffSeconds}

\* C24 (as stated): when CheckAndMark is called on a cache that holds at
\* least maxSize ids, exactly the max(1, maxSize/4) oldest ids are evicted
\* and every other id stays; a full cache of maxSize 10 holds 9 ids after a
\* new id is marked.
C24_OldestQuarterEvicted ==
    (/\ MarkDone
     /\ InOrder(callArgs.cache, callArgs.now)
     /\ Len(callArgs.cache.keys) >= callArgs.maxSize)
    => /\ Evicted = OldestQuarter
       /\ (callArgs.maxSize = 10 /\ callArgs.eventID \notin DOMAIN callArgs.cache.store)
          => Len(callResult.cache.keys) = 9

\* C24 (amended): when CheckAndMark is called, with non-decreasing now
\* values, on a cache that holds at least maxSize ids, the ids evicted are
\* exactly the max(1, maxSize/4) oldest and those first seen before
\* now - cutoffDuration; every other id stays, with its first-seen instant;
\* a full cache of maxSize 10 none of whose ids has aged out holds 9 ids
\* after a new id is marked.
C24_OldestQuarterAndAgedEvicted ==
    (/\ MarkDone
     /\ InOrder(callArgs.cache, callArgs.now)
     /\ Len(callArgs.cache.keys) >= callArgs.maxSize)
    => /\ Evicted = OldestQuarter \cup AgedOut
       /\ \A id \in (DOMAIN callArgs.cache.store) \ Evicted :
             callResult.cache.store[id] = callArgs.cache.store[id]
       /\ (/\ callArgs.maxSize = 10
           /\ callArgs.eventID \notin DOMAIN callArgs.cache.store
           /\ AgedOut = {})
          => Len(callResult.cache.keys) = 9

\* a full cache of maxSize 10, no id aged out: a new id is marked, the two
\* oldest ids are gone and 9 ids are held
C24_Witness ==
    /\ MarkDone
    /\ InOrder(callArgs.cache, callArgs.now)
    /\ callArgs.maxSize = 10
    /\ Len(callArgs.cache.keys) = 10
    /\ callArgs.eventID = 11
    /\ AgedOut = {}
    /\ Evicted = {1, 2}
    /\ callResult.cache.keys = <<3, 4, 5, 6, 7, 8, 9, 10, 11>>

\* C25: when CheckAndMark is called with non-decreasing now values, after
\* the call no entry is older than now - cutoffDuration, the age prune has
\* removed no entry first seen at or after now - cutoffDuration, and an id
\* whose entry had aged out is reported as not seen and recorded again.
C25_AgeWindow ==
    (MarkDone /\ InOrder(callArgs.cache, callArgs.now))
    => /\ \A id \in DOMAIN callResult.cache.store :
             callResult.cache.store[id] >= callArgs.now - CutoffSeconds
       /\ \A id \in (DOMAIN callArgs.cache.store) \ AgedOut :
             \/ (Len(callArgs.cache.keys) >= callArgs.maxSize /\ id \in OldestQuarter)
             \/ /\ id \in DOMAIN callResult.cache.store
                /\ callResult.cache.store[id] = callArgs.cache.store[id]
       /\ callArgs.eventID \in AgedOut
          => /\ ~callResult.seen
             /\ callResult.cache.store[callArgs.eventID] = callArgs.now
             /\ callResult.cache.keys[Len(callResult.cache.keys)] = callArgs.eventID

\* a call with an id whose entry has aged out, on a cache below its
\* capacity that also holds an entry first seen exactly cutoffDuration ago:
\* the id is recorded again and the other entry stays
C25_Witness ==
    /\ MarkDone
    /\ InOrder(callArgs.cache, callArgs.now)
    /\ Len(callArgs.cache.keys) < callArgs.maxSize
    /\ callArgs.eventID \in AgedOut
    /\ ~callResult.seen
    /\ \E id \in DOMAIN callResult.cache.store :
          /\ id # callArgs.eventID
          /\ callResult.cache.store[id] = callArgs.now - CutoffSeconds

\* C26: for every maxSize >= 1, the cache holds at most maxSize ids after a
\* call of CheckAndMark, in whatever order its entries were stamped.
C26_SizeWithinMaxSize ==
    MarkDone
    => /\ Len(callResult.cache.keys) <= callArgs.maxSize
       /\ Cardinality(DOMAIN callResult.cache.store) <= callArgs.maxSize

\* a new id is marked in a cache one entry below the largest capacity,
\* which is then full
C26_Witness ==
    /\ MarkDone
    /\ callArgs.maxSize = MaxFill
    /\ Len(callArgs.cache.keys) = MaxFill - 1
    /\ ~callResult.seen
    /\ Len(callResult.cache.keys) = MaxFill

\* C27: the tag list of every 29001 built by WrapEvent or by the re-wrap
\* step of HandleEvent is exactly one tag [p, next hop]: the first hop of
\* the path at the ingress, the hop named by the first p tag of the peeled
\* 29000 at a Renoter.  Whatever the author and the content of the
\* plaintext, it is the tag [p, hop] of a hop of the path (of the hop the
\* plaintext names, when the plaintext is itself a 29000), and no tag of
\* the received envelope or of an inner event is carried over.
C27_OnlyNextHopTag ==
    /\ wrapped.ok => wrapped.ev.tags = <<Tag("p", path[1], 0)>>
    /\ (last.node # 0 /\ last.stage = "EMIT_S_NEXT")
       => last.out.tags
          = <<Tag("p", FirstPTag(Unmarshal(LastInnerW.content.pt).ev.tags), 0)>>
    /\ \A e \in relayStore :
          e.kind = StandardizedWrapperKind
          => \/ \E i \in 1..Len(path) : e.tags = <<Tag("p", path[i], 0)>>
             \/ /\ plain.kind = WrapperEventKind
                /\ e.tags = <<Tag("p", FirstPTag(plain.tags), 0)>>

\* the event of the other author went through a path of two hops or more:
\* the 29001 of the ingress and the 29001 re-wrapped by the first hop are
\* on the relays, each with the one tag naming its hop
C27_Witness ==
    /\ plain = PlainOutsider
    /\ Len(path) >= 2
    /\ wrapped.ok
    /\ wrapped.ev \in relayStore
    /\ wrapped.ev.tags = <<Tag("p", path[1], 0)>>
    /\ last.node = NodeOf(path[1])
    /\ last.stage = "EMIT_S_NEXT"
    /\ last.published
    /\ last.out \in relayStore
    /\ last.out.tags = <<Tag("p", path[2], 0)>>
    /\ Len(LastInnerW.tags) > 1

\* the event inside the ciphertext of envelope e, NoEvent when there is none
InnerOf(e) ==
    IF e.content.k # "enc" THEN NoEvent
    ELSE IF ~Unmarshal(e.content.pt).ok THEN NoEvent
    ELSE Unmarshal(e.content.pt).ev

\* the stages at which HandleEvent has peeled the inner 29000
PeeledStages ==
    {"EMIT_FINAL", "EMIT_S_NEXT"}

\* C31: an inner 29000 whose id the node has already peeled is rejected,
\* also inside a 29001 with another id: when HandleEvent runs on an
\* envelope whose inner 29000 it peeled before, inside another envelope,
\* nothing is handed to the relays.
C31_InnerWOncePerNode ==
    (/\ last.node # 0
     /\ last.handled
     /\ CheckID(last.ev)
     /\ InnerOf(last.ev) # NoEvent
     /\ \E e \in Catalogue :
           /\ e.id # last.ev.id
           /\ CheckID(e)
           /\ <<last.node, e.id>> \in handledIds
           /\ InnerOf(e) # NoEvent
           /\ InnerOf(e).id = InnerOf(last.ev).id
           /\ HandleEvent(last.node, e, last.now, nextKey).stage \in PeeledStages)
    => last.out = NoEvent

(***************************************************************************)
(* SpecRace: ProcessEvent called by several workers at once, each for an   *)
(* envelope of its own, created at the instant the worker read.            *)
(***************************************************************************)
\* the rest of ProcessEvent of worker w, with the instant it read before
RaceProcess(w) ==
    LET r == ProcessEvent(eventCache[1], Filler(w, wnow[w]), wnow[w])
    IN  /\ wpc[w] = "read"
        /\ wpc' = [wpc EXCEPT ![w] = "done"]
        /\ wres' = [wres EXCEPT ![w] = IF r.err = "" THEN "PROCEED" ELSE r.err]
        /\ eventCache' = [eventCache EXCEPT ![1] = r.cache]
        /\ UNCHANGED <<tick, wnow, processedEvents, processingEvents, relayStore,
                       nextKey, arrivals, last, seenIds, handledIds,
                       handledTwice, okIds, pubCount, pubFailed, visited>>
        /\ UNCHANGED <<ingressVars, cacheCallVars, directVars, loopVars>>

RaceNext ==
    \/ Tick
    \/ \E w \in Workers : WorkerReadNow(w)
    \/ \E w \in Workers : RaceProcess(w)

SpecRace ==
    ConcInit /\ [][RaceNext]_vars

\* C32: in every state of the replay cache, concurrent callers of
\* ProcessEvent included, the key list is ordered by non-decreasing
\* first-seen instant.
C32_KeysOrderedByInstant ==
    \A i \in 1..Len(eventCache[1].keys), j \in 1..Len(eventCache[1].keys) :
        i <= j => eventCache[1].store[eventCache[1].keys[i]]
                  <= eventCache[1].store[eventCache[1].keys[j]]

\* the 29000 the last iteration found inside the 29000 of its envelope,
\* NoEvent when there is none
LastNextW ==
    IF InnerOf(last.ev) = NoEvent THEN NoEvent
    ELSE IF InnerOf(InnerOf(last.ev)) = NoEvent THEN NoEvent
    ELSE IF InnerOf(InnerOf(last.ev)).kind # WrapperEventKind THEN NoEvent
    ELSE InnerOf(InnerOf(last.ev))

\* the indexes of the "p" tags of the tag list
PTagIndexes(tags) ==
    {i \in 1..Len(tags) : tags[i].name = "p"}

\* C33: the 29001 built by the re-wrap step is addressed to, and encrypted
\* for, the key in the first p tag of the 29000 it wraps; when that 29000
\* has no p tag HandleEvent returns an error and nothing is handed to the
\* relays.
C33_NextHopFromFirstPTag ==
    (last.node # 0 /\ last.handled)
    => /\ (last.out # NoEvent /\ last.out.kind = StandardizedWrapperKind)
          => /\ LastNextW # NoEvent
             /\ PTagIndexes(LastNextW.tags) # {}
             /\ LET first == CHOOSE i \in PTagIndexes(LastNextW.tags) :
                                 \A j \in PTagIndexes(LastNextW.tags) : i <= j
                    hop   == LastNextW.tags[first].val
                IN  /\ last.out.tags = <<Tag("p", hop, 0)>>
                    /\ last.out.content.k = "enc"
                    /\ last.out.content.ck = {hop, last.out.pubkey}
                    /\ InnerOf(last.out).id = LastNextW.id
       /\ (LastNextW # NoEvent /\ PTagIndexes(LastNextW.tags) = {})
          => last.out = NoEvent /\ last.err
       /\ last.stage = "NO_NEXT_HOP"
          => /\ LastNextW # NoEvent
             /\ PTagIndexes(LastNextW.tags) = {}
             /\ last.err
             /\ last.out = NoEvent

\* the 29000 with two p tags was re-wrapped for the key of the first and
\* published
C33_Witness ==
    /\ last.node = 1
    /\ last.ev = NextTwoP
    /\ last.handled
    /\ last.published
    /\ last.out \in relayStore
    /\ last.out.tags = <<Tag("p", Pub(2), 0)>>
    /\ last.out.content.ck = {Pub(2), last.out.pubkey}

\* WrapEvent fails at the ingress because of a size: a layer is larger
\* than the largest plaintext the encryption takes, or the outermost
\* 29000 is larger than StandardizedSize
IngressSizeFailure ==
    LET sk0    == nextKey - Len(path) - 1
        layers == WrapLayers(plain, path, Len(path), sk0, 0)
    IN  \/ ~layers.ok
        \/ JSONLen([layers.ev EXCEPT !.tags = Append(@, Tag("padding", 0, 0))])
           > StandardizedSize

\* C34: the ingress handler returns reject = true, with an 'event too
\* large' message, exactly when WrapEvent fails with a size error; when
\* WrapEvent fails nothing is published, and when it succeeds the handler
\* returns reject = false whatever the relays answer.
C34_RejectExactlyOnSizeError ==
    wrapped.done
    => /\ callResult.reject <=> IngressSizeFailure
       /\ callResult.reject => callResult.msg = "event too large"
       /\ ~wrapped.ok => relayStore = {}
       /\ wrapped.ok => ~callResult.reject

(***************************************************************************)
(* ProcessEvent called directly, one call after another, on the Renoter of *)
(* node 1 (what TestRenoter_ProcessEvent_AgeValidation and                 *)
(* TestRenoter_ReplayProtection do).  last describes the last call,        *)
(* seenIds the ids ProcessEvent was called with, handledIds the ids it     *)
(* accepted.                                                               *)
(***************************************************************************)
\* the envelopes ProcessEvent is called with
Callable ==
    {GoodFinal, BadSig, GoodNext, FutureS, LowPow}

ProcessCall(ev) ==
    /\ arrivals < MaxCalls
    /\ LET pr == ProcessEvent(eventCache[1], ev, Now)
       IN  /\ eventCache' = [eventCache EXCEPT ![1] = pr.cache]
           /\ last' = [NoIteration EXCEPT !.node = 1, !.ev = ev, !.now = Now,
                                          !.stage = pr.err,
                                          !.handled = (pr.err = ""),
                                          !.dup = (<<1, ev.id>> \in handledIds),
                                          !.err = (pr.err # "")]
           /\ handledIds' = IF pr.err = "" THEN handledIds \cup {<<1, ev.id>>}
                            ELSE handledIds
    /\ arrivals' = arrivals + 1
    /\ seenIds' = seenIds \cup {<<1, ev.id>>}
    /\ UNCHANGED <<tick, processedEvents, processingEvents, relayStore, nextKey,
                   handledTwice, okIds, pubCount, pubFailed, visited,
                   ingressVars, workerVars, cacheCallVars, directVars, loopVars>>

ProcessNext ==
    \/ Tick
    \/ \E ev \in Callable : ProcessCall(ev)

SpecProcess ==
    Init /\ [][ProcessNext]_vars

\* C35: a call of ProcessEvent that rejects the envelope as too old leaves
\* the replay cache as it was: the id is not recorded, and nothing is pruned
\* for capacity or for age.
C35_AgeRejectLeavesCacheUnchanged ==
    [][(arrivals' = arrivals + 1 /\ last'.stage = "TOO_OLD")
         => eventCache' = eventCache]_vars

\* a too old envelope was rejected while the cache was full of entries
\* older than the cutoff, and its id is not in the cache
C35_Witness ==
    /\ last.node = 1
    /\ last.stage = "TOO_OLD"
    /\ Len(eventCache[1].keys) = MaxCacheSize
    /\ last.ev.id \notin DOMAIN eventCache[1].store
    /\ \A id \in DOMAIN eventCache[1].store :
          eventCache[1].store[id] < last.now - CutoffSeconds

\* C36: ProcessEvent records the id of the envelope before it verifies the
\* signature: after a call that failed the signature check the id is in the
\* replay cache, and the next call with that id, if the envelope is not too
\* old, is rejected as a replay whether or not its signature is valid.
C36_MarkedBeforeSignatureCheck ==
    /\ [](last.stage = "SIG_S"
            => /\ last.ev.id \in DOMAIN eventCache[1].store
               /\ eventCache[1].store[last.ev.id] = last.now)
    /\ [][(/\ last.stage = "SIG_S"
           /\ arrivals' = arrivals + 1
           /\ last'.ev.id = last.ev.id
           /\ last'.ev.created_at >= last'.now - MaxAgeSeconds)
          => last'.stage = "REPLAY"]_vars

\* an envelope with a valid signature, whose id was never accepted, was
\* rejected as a replay right after the signature check failed for its id
C36_Witness ==
    /\ last.node = 1
    /\ arrivals = 2
    /\ last.stage = "REPLAY"
    /\ CheckSignature(last.ev)
    /\ ~last.dup

\* C37: once ProcessEvent has accepted an envelope, every later call of
\* ProcessEvent on the same node with that envelope is rejected, as a replay
\* or as too old, when no other id arrived in between.
C37_AcceptedOnceOnly ==
    (/\ last.node = 1
     /\ last.dup
     /\ Cardinality(seenIds) = 1)
    => last.stage \in {"REPLAY", "TOO_OLD"}

\* C38: in every state of the replay cache the ids of the key list are
\* pairwise distinct and are exactly the keys of the map, so Size() is the
\* number of remembered ids; no sequence of CheckAndMark calls, with the
\* prunes they run, breaks this.
C38_KeysAreTheMapKeys ==
    LET c == eventCache[1]
    IN  /\ \A i \in 1..Len(c.keys), j \in 1..Len(c.keys) :
              i # j => c.keys[i] # c.keys[j]
        /\ {c.keys[i] : i \in 1..Len(c.keys)} = DOMAIN c.store
        /\ Size(c) = Len(c.keys)

\* the watched id was recorded, pruned for capacity, and is recorded again
\* by the last call, at the end of a key list that is full
C38_Witness ==
    /\ cLast.id = 1
    /\ ~cLast.seen
    /\ cLast.prevMark >= 0
    /\ cLast.now - cLast.prevMark < CutoffSeconds
    /\ Len(eventCache[1].keys) = MaxCacheSize
    /\ eventCache[1].keys[MaxCacheSize] = 1

\* C39: whenever the goroutine of the subscription loop waits for the next
\* envelope, processingEvents is empty, whatever happened to the envelopes
\* before.
C39_ProcessingEmptyWhenWaiting ==
    lpc = "select" => processingEvents[1] = {}

====
